---- MODULE Spec2Model ----
(***************************************************************************)
(* A model of eliquious/reticulum: the Volume tensor, the layers, the      *)
(* network builder and the trainer.                                        *)
(*                                                                         *)
(* float64 values are modelled by integers.  The value sets below are      *)
(* chosen so that every division the code performs on them (p*p/2, the     *)
(* dropout scaling) is exact.  A Go slice is a sequence; the 0-based index *)
(* i of the code is position i+1 of the sequence.                          *)
(*                                                                         *)
(* The module holds four specifications over one set of variables:         *)
(*   SpecVol    a Volume and its accessors            (volume/vol.go)      *)
(*   SpecNet    NewNetwork on a layer-definition list (trainer.go)         *)
(*   SpecLayer  one layer and the Volumes it caches   (layers)             *)
(*   Spec       a trainer stepping a network          (trainer.go)         *)
(* Each specification leaves the variables of the others at Unused.        *)
(***************************************************************************)
EXTENDS Integers, Sequences, FiniteSets, TLC

VARIABLES
    vol,      \* SpecVol: the Volume under test
    volOp,    \* SpecVol: the last accessor call and what it returned
    defs,     \* SpecNet: the layer-definition list handed to NewNetwork
    nn,       \* SpecNet: what NewNetwork returned
    heap,     \* SpecLayer: the Volumes allocated so far, by address
    layer,    \* SpecLayer: the layer object (its cached references)
    calls,    \* SpecLayer: the calls made on the layer, in order
    net,      \* Spec: the network the trainer owns (layers and parameters)
    t,        \* Spec: the trainer struct
    res,      \* Spec: what the last Train call returned
    trace     \* Spec: the calls the last Train call made, in order

vars == <<vol, volOp, defs, nn, heap, layer, calls, net, t, res, trace>>

Unused == "unused"

(***************************************************************************)
(* Bounds                                                                  *)
(***************************************************************************)
MaxDim == 2       \* largest sx, sy or depth of a Volume under test
MaxCells == 4     \* largest sx*sy*depth of a Volume under test
MaxDefs == 3      \* longest layer-definition list handed to NewNetwork
MaxCalls == 3     \* most Forward/Backward calls made on the layer under test
MaxK == 4         \* most Train calls made on the trainer

Vals == {-2, 0, 2}        \* float64 values of weights
GradVals == {0, 1}        \* float64 values of gradients
VolVals == {0, 2}         \* float64 values written to the Volume under test

(***************************************************************************)
(* Helpers on sequences                                                    *)
(***************************************************************************)
Zeros(n) == [i \in 1..n |-> 0]

RECURSIVE SumSeq(_)
SumSeq(xs) == IF xs = <<>> THEN 0 ELSE Head(xs) + SumSeq(Tail(xs))

(***************************************************************************)
(* Volume (volume/vol.go)                                                  *)
(***************************************************************************)
\* VolumeOptions{} as NewVolume creates it before applying the option funcs.
\* Weights = <<>> with HasWeights = FALSE is the nil slice.
VolumeOptions ==
    [Zero |-> FALSE, HasInitialValue |-> FALSE, InitialValue |-> 0,
     HasWeights |-> FALSE, Weights |-> <<>>]

WithInitialValue(value, opts) ==
    [opts EXCEPT !.HasInitialValue = TRUE, !.InitialValue = value]

WithZeros(opts) ==
    [opts EXCEPT !.HasInitialValue = TRUE, !.Zero = TRUE]

WithWeights(w, opts) ==
    [opts EXCEPT !.HasWeights = TRUE, !.Weights = w]

\* An option function is a record [fn, arg]; ApplyOpts runs them in order.
RECURSIVE ApplyOpts(_, _)
ApplyOpts(optFuncs, opts) ==
    IF optFuncs = <<>> THEN opts
    ELSE LET f == Head(optFuncs)
             o == CASE f.fn = "WithInitialValue" -> WithInitialValue(f.arg, opts)
                    [] f.fn = "WithZeros" -> WithZeros(opts)
                    [] f.fn = "WithWeights" -> WithWeights(f.arg, opts)
         IN ApplyOpts(Tail(optFuncs), o)

\* What a call that panics yields in place of a Volume.
Panic == [panic |-> TRUE]

\* The builtin copy(dst, src): the first min(len(dst), len(src)) elements of
\* src overwrite those of dst.
Copy(dst, src) ==
    [i \in 1..Len(dst) |-> IF i <= Len(src) THEN src[i] ELSE dst[i]]

NewVolumeAnyShape(sx, sy, depth, optFuncs, rnd) ==
    LET n == sx * sy * depth
        opts == ApplyOpts(optFuncs, VolumeOptions)
        mk(w) == [sx |-> sx, sy |-> sy, depth |-> depth, n |-> n,
                  w |-> w, dw |-> Zeros(n)]
    IN IF n < 0 THEN Panic
       ELSE IF opts.HasInitialValue
       THEN IF ~opts.Zero THEN mk([i \in 1..n |-> opts.InitialValue])
                          ELSE mk(Zeros(n))
       ELSE IF opts.HasWeights
       THEN IF Len(opts.Weights) # depth THEN Panic
            ELSE mk(Copy(Zeros(n), opts.Weights))
       ELSE mk([i \in 1..n |-> rnd[i]])

\* NewVolume(sx, sy, depth, optFuncs...).  rnd is the sequence of values the
\* random generator yields for the Gaussian fill.  The result is Panic or
\* the Volume; make panics on a negative length.
NewVolume(sx, sy, depth, optFuncs, rnd) ==
    LET n == sx * sy * depth
        opts == ApplyOpts(optFuncs, VolumeOptions)
        mk(w) == [sx |-> sx, sy |-> sy, depth |-> depth, n |-> n,
                  w |-> w, dw |-> Zeros(n)]
    IN IF n < 0 THEN Panic
       ELSE IF opts.HasInitialValue
       THEN IF ~opts.Zero THEN mk([i \in 1..n |-> opts.InitialValue])
                          ELSE mk(Zeros(n))
       ELSE IF opts.HasWeights
       THEN IF Len(opts.Weights) # depth THEN Panic
            ELSE IF sx # 1 THEN Panic
            ELSE IF sy # 1 THEN Panic
            ELSE mk(Copy(Zeros(n), opts.Weights))
       ELSE mk([i \in 1..n |-> rnd[i]])

Size(v) == v.n

getIndexSwapped(v, x, y, d) == ((v.sy * y) + x) * v.depth + d

getIndex(v, x, y, d) == ((v.sx * y) + x) * v.depth + d

\* Go panics on a slice index outside [0, len): every caller below tests
\* InRange before it uses an accessor and takes its panic branch otherwise.
InRange(v, index) == index >= 0 /\ index < Len(v.w)

GetByIndex(v, index) == v.w[index + 1]

SetByIndex(v, index, val) == [v EXCEPT !.w[index + 1] = val]

\* val is a fraction [num, den]: the factors the code multiplies by are
\* probabilities.
MultByIndex(v, index, val) == [v EXCEPT !.w[index + 1] = (@ * val.num) \div val.den]

GetGradByIndex(v, index) == v.dw[index + 1]

SetGradByIndex(v, index, val) == [v EXCEPT !.dw[index + 1] = val]

AddGradByIndexOverwrites(v, index, val) == [v EXCEPT !.dw[index + 1] = val]

AddGradByIndex(v, index, val) == [v EXCEPT !.dw[index + 1] = @ + val]

Get(v, x, y, d) == GetByIndex(v, getIndex(v, x, y, d))

Set(v, x, y, d, val) == SetByIndex(v, getIndex(v, x, y, d), val)

GetGrad(v, x, y, d) == GetGradByIndex(v, getIndex(v, x, y, d))

SetGrad(v, x, y, d, val) == SetGradByIndex(v, getIndex(v, x, y, d), val)

ZeroGradSkipped(v) == v

ZeroGrad(v) == [v EXCEPT !.dw = Zeros(v.n)]

CloneWithGrad(v) == v

Clone(v) ==
    LET c == NewVolume(v.sx, v.sy, v.depth, <<[fn |-> "WithZeros", arg |-> 0]>>, <<>>)
    IN [c EXCEPT !.w = Copy(c.w, v.w)]

CloneAndZero(v) ==
    NewVolume(v.sx, v.sy, v.depth, <<[fn |-> "WithZeros", arg |-> 0]>>, <<>>)

(***************************************************************************)
(* Layer definitions and layer constructors (layers/*.go)                  *)
(***************************************************************************)
\* volume.Dimensions{X, Y, Z}
Dim(x, y, z) == [X |-> x, Y |-> y, Z |-> z]

DimSize(dim) == dim.X * dim.Y * dim.Z

DimOf(v) == Dim(v.sx, v.sy, v.depth)

\* volume.NewVolume(dim, opts...) as the layers call it.
NewVolumeD(dim, optFuncs, rnd) == NewVolume(dim.X, dim.Y, dim.Z, optFuncs, rnd)

\* LayerType enums (layers/layers.go); FullyConnected, Pool, Tanh and Maxout
\* have no constructor in the sources and are left out of the model.
Input == "input"
Dropout == "dropout"
SoftMax == "softmax"
Regression == "regression"
Conv == "conv"
ReLU == "relu"
Sigmoid == "sigmoid"
SVM == "svm"
LocalResponseNorm == "lrn"

\* A nil LayerConfig, a nil network.
Nil == [nil |-> TRUE]

\* A Volume reference is an address of the heap; NilRef is the nil pointer.
NilRef == 0

\* LayerDef.  Activation is the activation the definition implies ("none" when
\* it implies none); ActivateLayers reads it.
LayerDef(type, output, config, activation) ==
    [Type |-> type, Input |-> Dim(0, 0, 0), Output |-> output,
     LayerConfig |-> config, Activation |-> activation]

\* An option of NewConvLayerConfig is a record [fn, a, b].
ConvOpt(conf, o) ==
    CASE o.fn = "WithConvStride" -> [conf EXCEPT !.Stride = o.a]
      [] o.fn = "WithConvPadding" -> [conf EXCEPT !.Padding = o.a]
      [] o.fn = "WithConvDecay" -> [conf EXCEPT !.L1DecayMult = o.a, !.L2DecayMult = o.b]
      [] o.fn = "WithConvBias" -> [conf EXCEPT !.PreferredBias = o.a]
      [] o.fn = "WithConvSx" -> [conf EXCEPT !.Sx = o.a]
      [] o.fn = "WithConvSy" -> [conf EXCEPT !.Sy = o.a]

RECURSIVE ConvOpts(_, _)
ConvOpts(conf, opts) ==
    IF opts = <<>> THEN conf ELSE ConvOpts(ConvOpt(conf, Head(opts)), Tail(opts))

\* NewConvLayerConfig(filters, opts...), for filters > 0.
NewConvLayerConfig(filters, opts) ==
    ConvOpts([kind |-> "convLayerConfig", FilterCount |-> filters, Sx |-> 0, Sy |-> 0,
              Stride |-> 1, Padding |-> 0, L1DecayMult |-> 0, L2DecayMult |-> 1,
              PreferredBias |-> 0], opts)

\* A LayerConfig of another type than *convLayerConfig.
OtherConfig == [kind |-> "other"]

\* The output extent of a convolution along one axis; \div is the floor of
\* the quotient for the positive strides the model draws.
ConvOutSinglePad(in, pad, k, stride) == ((in + pad - k) \div stride) + 1

ConvOut(in, pad, k, stride) == ((in + pad * 2 - k) \div stride) + 1

\* NewConvLayer(def): Panic, or the layer.  rnd fills the filters.
NewConvLayer(def, rnd) ==
    IF def.Type # Conv THEN Panic
    ELSE IF def.Output.Z = 0 THEN Panic
    ELSE IF def.LayerConfig = Nil THEN Panic
    ELSE IF def.LayerConfig.kind # "convLayerConfig" THEN Panic
    ELSE LET c == def.LayerConfig
             conf == IF c.Sy <= 0 THEN [c EXCEPT !.Sy = c.Sx] ELSE c
             outDepth == conf.FilterCount
             outSx == ConvOut(def.Input.X, conf.Padding, conf.Sx, conf.Stride)
             outSy == ConvOut(def.Input.Y, conf.Padding, conf.Sy, conf.Stride)
             fdim == Dim(conf.Sx, conf.Sy, def.Input.Z)
         IN [Type |-> Conv, conf |-> conf, input |-> def.Input,
             output |-> Dim(outSx, outSy, outDepth),
             inVol |-> NilRef, outVol |-> NilRef,
             filters |-> [i \in 1..outDepth |-> NewVolumeD(fdim, <<>>, rnd)],
             biases |-> NewVolumeD(Dim(1, 1, outDepth),
                          <<[fn |-> "WithInitialValue", arg |-> conf.PreferredBias]>>, <<>>)]

NewReluLayer(def) ==
    IF def.Type # ReLU THEN Panic
    ELSE IF def.Output.Z = 0 THEN Panic
    ELSE [Type |-> ReLU, output |-> def.Output, inVol |-> NilRef, outVol |-> NilRef]

NewSigmoidLayer(def) ==
    IF def.Type # Sigmoid THEN Panic
    ELSE IF def.Output.Z = 0 THEN Panic
    ELSE [Type |-> Sigmoid, output |-> def.Output, inVol |-> NilRef, outVol |-> NilRef]

NewSVMLayer(def) ==
    IF def.Type # SVM THEN Panic
    ELSE [Type |-> SVM, inDim |-> def.Input, outDim |-> Dim(1, 1, DimSize(def.Input)),
          inVol |-> NilRef, outVol |-> NilRef]

NewRegressionLayer(def) ==
    IF def.Type # Regression THEN Panic
    ELSE [Type |-> Regression, inDim |-> def.Input,
          outDim |-> Dim(1, 1, DimSize(def.Input)), inVol |-> NilRef, outVol |-> NilRef]

NewSoftmaxLayer(def) ==
    IF def.Type # SoftMax THEN Panic
    ELSE [Type |-> SoftMax, inDim |-> def.Input,
          outDim |-> Dim(1, 1, DimSize(def.Input)), inVol |-> NilRef, outVol |-> NilRef,
          es |-> <<>>]

\* DefaultDropout is 0.5; probabilities are counted in halves.
ProbDen == 2
DefaultDropout == 1

NewDropoutLayerWithProb(sx, sy, depth, prob) ==
    [Type |-> Dropout, outSx |-> sx, outSy |-> sy, outDepth |-> depth,
     DropoutProb |-> prob, dropped |-> [i \in 1..(sx * sy * depth) |-> FALSE],
     inVol |-> NilRef, outVol |-> NilRef]

NewDropoutLayer(sx, sy, depth) ==
    NewDropoutLayerWithProb(sx, sy, depth, DefaultDropout)

NewInputLayer(depth) ==
    [Type |-> Input, outSx |-> 1, outSy |-> 1, outDepth |-> depth,
     inVol |-> NilRef, outVol |-> NilRef]

(***************************************************************************)
(* Forward and Backward of the layers.  h is the heap (a sequence of        *)
(* Volumes, a reference being an index), l the layer; Forward yields the    *)
(* new heap and layer, Backward the new heap.                               *)
(***************************************************************************)
\* l.inVol = vol, the first statement of every Forward.
CacheInputOnce(l, a) == IF l.inVol = NilRef THEN [l EXCEPT !.inVol = a] ELSE l

CacheInput(l, a) == [l EXCEPT !.inVol = a]

\* The Volume a fresh allocation is placed at.
Alloc(h) == Len(h) + 1

RECURSIVE Rectify(_, _, _)
Rectify(v2, i, n) ==
    IF i >= n THEN v2
    ELSE Rectify(IF GetByIndex(v2, i) < 0 THEN SetByIndex(v2, i, 0) ELSE v2, i + 1, n)

ReluForward(h, l, a) ==
    LET l1 == CacheInput(l, a)
        v2 == Rectify(Clone(h[a]), 0, Size(h[a]))
    IN [heap |-> Append(h, v2), layer |-> [l1 EXCEPT !.outVol = Alloc(h)],
        ret |-> Alloc(h)]

BelowThresholdStrict(x) == x < 0

\* if l.outVol.GetByIndex(i) <= 0
BelowThreshold(x) == x <= 0

RECURSIVE ReluBackwardLoop(_, _, _, _)
ReluBackwardLoop(h, l, i, n) ==
    IF i >= n THEN h
    ELSE LET g == IF BelowThreshold(GetByIndex(h[l.outVol], i))
                  THEN 0 ELSE GetGradByIndex(h[l.outVol], i)
         IN ReluBackwardLoop([h EXCEPT ![l.inVol] = SetGradByIndex(@, i, g)],
                             l, i + 1, n)

ReluBackward(h, l) ==
    ReluBackwardLoop([h EXCEPT ![l.inVol] = ZeroGrad(@)], l, 0, Size(h[l.inVol]))

\* rand.Float64() < DropoutProb, for a draw the caller cannot see: never at
\* probability 0, always at probability 1.
DropMasks(n, prob) ==
    {m \in [1..n -> BOOLEAN] :
        /\ prob <= 0 => \A i \in 1..n : ~m[i]
        /\ prob >= ProbDen => \A i \in 1..n : m[i]}

RECURSIVE DropoutTrainLoop(_, _, _, _, _)
DropoutTrainLoop(v2, dropped, mask, i, n) ==
    IF i >= n THEN [vol |-> v2, dropped |-> dropped]
    ELSE IF mask[i + 1]
         THEN DropoutTrainLoop(SetByIndex(v2, i, 0),
                               [dropped EXCEPT ![i + 1] = TRUE], mask, i + 1, n)
         ELSE DropoutTrainLoop(v2, [dropped EXCEPT ![i + 1] = FALSE], mask, i + 1, n)

RECURSIVE DropoutScaleLoop(_, _, _, _)
DropoutScaleLoop(v2, prob, i, n) ==
    IF i >= n THEN v2
    ELSE DropoutScaleLoop(MultByIndex(v2, i, [num |-> prob, den |-> ProbDen]),
                          prob, i + 1, n)

\* mask[i+1] is the outcome of the i-th draw of a training-mode Forward.
DropoutForward(h, l, a, training, mask) ==
    LET l1 == CacheInput(l, a)
        n == Size(h[a])
        tr == DropoutTrainLoop(Clone(h[a]), l1.dropped, mask, 0, n)
        vol2 == IF training THEN tr.vol
                ELSE DropoutScaleLoop(Clone(h[a]), l1.DropoutProb, 0, n)
        l2 == IF training THEN [l1 EXCEPT !.dropped = tr.dropped] ELSE l1
    IN [heap |-> Append(h, vol2), layer |-> [l2 EXCEPT !.outVol = Alloc(h)],
        ret |-> Alloc(h)]

RECURSIVE DropoutBackwardLoop(_, _, _, _)
DropoutBackwardLoop(h, l, i, n) ==
    IF i >= n THEN h
    ELSE DropoutBackwardLoop(
            IF ~l.dropped[i + 1]
            THEN [h EXCEPT ![l.inVol] =
                     SetGradByIndex(@, i, GetGradByIndex(h[l.outVol], i))]
            ELSE h,
            l, i + 1, n)

DropoutBackwardNoZero(h, l) ==
    DropoutBackwardLoop(h, l, 0, Size(h[l.inVol]))

DropoutBackward(h, l) ==
    DropoutBackwardLoop([h EXCEPT ![l.inVol] = ZeroGrad(@)], l, 0, Size(h[l.inVol]))

\* The window of filter f over Volume v with its corner at (x, y): the
\* cells (fy, fx, fz) in loop order, k = (fy*f.sx + fx)*f.depth + fz.
WindowCell(f, k) ==
    [fz |-> k % f.depth, fx |-> (k \div f.depth) % f.sx, fy |-> k \div (f.depth * f.sx)]

\* oy >= 0 && oy < vsy && ox >= 0 && ox < vsx
InsideInput(v, ox, oy) == oy >= 0 /\ oy < v.sy /\ ox >= 0 /\ ox < v.sx

\* The sum a of convLayer.Forward for one output cell.
ConvWindowSum(f, v, x, y) ==
    SumSeq([k1 \in 1..Size(f) |->
        LET c == WindowCell(f, k1 - 1)
            oy == y + c.fy
            ox == x + c.fx
        IN IF InsideInput(v, ox, oy)
           THEN GetByIndex(f, ((f.sx * c.fy) + c.fx) * f.depth + c.fz)
                * GetByIndex(v, ((v.sx * oy) + ox) * v.depth + c.fz)
           ELSE 0])

\* The output cell the k-th iteration of the loops d, ay, ax writes, and the
\* corner of its window: x and y start at -Padding and are stepped by the
\* stride before their first use.
ConvIteration(l, k) ==
    LET ax == k % l.output.X
        ay == (k \div l.output.X) % l.output.Y
        d == k \div (l.output.X * l.output.Y)
    IN [ax |-> ax, ay |-> ay, d |-> d,
        x |-> (0 - l.conf.Padding) + l.conf.Stride * (ax + 1),
        y |-> (0 - l.conf.Padding) + l.conf.Stride * (ay + 1)]

\* The number of iterations of the loops d, ay, ax.
ConvIterations(l) ==
    IF l.output.X <= 0 \/ l.output.Y <= 0 \/ l.output.Z <= 0 THEN 0
    ELSE DimSize(l.output)

\* Some read vol.GetByIndex of the Forward loops leaves the buffer of v.
ConvReadsOutside(l, v) ==
    \E k \in 0..(ConvIterations(l) - 1) :
        LET it == ConvIteration(l, k)
            f == l.filters[it.d + 1]
        IN \E k1 \in 0..(Size(f) - 1) :
              LET c == WindowCell(f, k1)
              IN /\ InsideInput(v, it.x + c.fx, it.y + c.fy)
                 /\ ~InRange(v, ((v.sx * (it.y + c.fy)) + (it.x + c.fx)) * v.depth + c.fz)

\* The iterations of the loops whose A.Set(ax, ay, d, a) lands on buffer
\* index idx of the output A.
ConvWriters(A, l, idx) ==
    {k \in 0..(ConvIterations(l) - 1) :
        getIndex(A, ConvIteration(l, k).ax, ConvIteration(l, k).ay,
                 ConvIteration(l, k).d) = idx}

\* The output after the loops d, ay, ax ran over Volume v: every buffer
\* index holds what the last iteration that wrote it left there, the sum
\* over its window plus the bias of its filter.
ConvForwardLoop(A, l, v) ==
    [A EXCEPT !.w = [i \in 1..Len(A.w) |->
        LET ws == ConvWriters(A, l, i - 1)
        IN IF ws = {} THEN A.w[i]
           ELSE LET it == ConvIteration(l, CHOOSE k \in ws : \A j \in ws : j <= k)
                IN ConvWindowSum(l.filters[it.d + 1], v, it.x, it.y)
                   + GetByIndex(l.biases, it.d)]]

\* convLayer.Forward
ConvForward(h, l, a) ==
    LET l1 == CacheInput(l, a)
        A == NewVolumeD(l.output, <<[fn |-> "WithZeros", arg |-> 0]>>, <<>>)
    IN IF A = Panic THEN [heap |-> h, layer |-> l1, ret |-> NilRef, panic |-> TRUE]
       ELSE IF ConvReadsOutside(l, h[a])
       THEN [heap |-> h, layer |-> l1, ret |-> NilRef, panic |-> TRUE]
       ELSE [heap |-> Append(h, ConvForwardLoop(A, l, h[a])),
             layer |-> [l1 EXCEPT !.outVol = Alloc(h)],
             ret |-> Alloc(h), panic |-> FALSE]

\* The flat index Forward reads input cell (ox, oy, fz) from.
InputIndexForward(v, ox, oy, fz) == ((v.sx * oy) + ox) * v.depth + fz

\* ix1 := ((vsy*oy)+ox)*vDim.Z + fz
InputIndexBackward(v, ox, oy, fz) == ((v.sy * oy) + ox) * v.depth + fz

\* The K-th pass through the loops d, ay, ax, fy, fx, fz of Backward: the
\* output cell, whether the window position lies inside the input, and the
\* indexes ix1 into the input and ix2 into the filter.
ConvBackwardStep(l, v, K) ==
    LET f == l.filters[1]
        it == ConvIteration(l, K \div Size(f))
        c == WindowCell(f, K % Size(f))
        oy == it.y + c.fy
        ox == it.x + c.fx
    IN [k |-> K \div Size(f), d |-> it.d, ax |-> it.ax, ay |-> it.ay,
        inside |-> InsideInput(v, ox, oy),
        ix1 |-> InputIndexBackward(v, ox, oy, c.fz),
        ix2 |-> ((f.sx * c.fy) + c.fx) * f.depth + c.fz]

\* The number of passes: every output cell times every filter cell.
ConvBackwardSteps(l) ==
    IF ConvIterations(l) = 0 THEN 0 ELSE ConvIterations(l) * Size(l.filters[1])

\* The passes Backward completes: all of them, or those before the first
\* pass whose ix1 leaves the buffer of the input, where the Go runtime
\* panics at l.inVol.GetByIndex(ix1).
ConvBackwardLimit(l, v) ==
    LET bad == {K \in 0..(ConvBackwardSteps(l) - 1) :
                   /\ ConvBackwardStep(l, v, K).inside
                   /\ ~InRange(v, ConvBackwardStep(l, v, K).ix1)}
    IN IF bad = {} THEN ConvBackwardSteps(l)
       ELSE CHOOSE K \in bad : \A J \in bad : K <= J

\* The last of the given passes, whose SetGradByIndex is the one that stays.
LastPass(S) == CHOOSE K \in S : \A J \in S : J <= K

\* f.SetGradByIndex(ix2, ...) and l.inVol.SetGradByIndex(ix1, ...): what a
\* gradient entry holds after the passes S wrote val[K] to it in order.
GradWrite(old, S, val) ==
    IF S = {} THEN old ELSE val[LastPass(S)]

\* convLayer.Backward: h[l.outVol] carries the upstream gradient.
ConvBackward(h, l) ==
    IF l.inVol = NilRef \/ l.outVol = NilRef
    THEN [heap |-> h, layer |-> l, panic |-> TRUE]
    ELSE
    LET v == ZeroGrad(h[l.inVol])
        out == h[l.outVol]
        lim == ConvBackwardLimit(l, v)
        done == {K \in 0..(lim - 1) : ConvBackwardStep(l, v, K).inside}
        chain(K) == GetGrad(out, ConvBackwardStep(l, v, K).ax,
                            ConvBackwardStep(l, v, K).ay, ConvBackwardStep(l, v, K).d)
        \* the output cells whose l.biases.AddGradByIndex(d, chainGrad) ran
        cells == IF lim = ConvBackwardSteps(l) THEN ConvIterations(l)
                 ELSE lim \div Size(l.filters[1])
        filters1 == [d1 \in 1..Len(l.filters) |->
            [l.filters[d1] EXCEPT !.dw = [j \in 1..Len(@) |->
                LET S == {K \in done : /\ ConvBackwardStep(l, v, K).d = d1 - 1
                                       /\ ConvBackwardStep(l, v, K).ix2 = j - 1}
                    val == [K \in S |->
                              GetByIndex(v, ConvBackwardStep(l, v, K).ix1) * chain(K)]
                IN GradWrite(l.filters[d1].dw[j], S, val)]]]
        biases1 == [l.biases EXCEPT !.dw = [d1 \in 1..Len(@) |->
            l.biases.dw[d1]
            + SumSeq([k1 \in 1..cells |->
                 LET it == ConvIteration(l, k1 - 1)
                 IN IF it.d = d1 - 1 THEN GetGrad(out, it.ax, it.ay, it.d) ELSE 0])]]
        v1 == [v EXCEPT !.dw = [j \in 1..Len(@) |->
            LET S == {K \in done : ConvBackwardStep(l, v, K).ix1 = j - 1}
                val == [K \in S |->
                          GetByIndex(l.filters[ConvBackwardStep(l, v, K).d + 1],
                                     ConvBackwardStep(l, v, K).ix2) * chain(K)]
            IN GradWrite(0, S, val)]]
    IN [heap |-> [h EXCEPT ![l.inVol] = v1],
        layer |-> [l EXCEPT !.filters = filters1, !.biases = biases1],
        panic |-> lim < ConvBackwardSteps(l)]

(***************************************************************************)
(* NewNetwork (trainer.go)                                                 *)
(***************************************************************************)
\* layers.ActivateLayers: a definition that implies an activation becomes
\* two chained definitions, the base layer followed by its activation layer.
RECURSIVE ActivateLayers(_)
ActivateLayers(ds) ==
    IF ds = <<>> THEN <<>>
    ELSE LET d == Head(ds)
         IN IF d.Activation = "none"
            THEN <<d>> \o ActivateLayers(Tail(ds))
            ELSE <<[d EXCEPT !.Activation = "none"],
                   LayerDef(d.Activation, d.Output, Nil, "none")>>
                 \o ActivateLayers(Tail(ds))

\* The validation at the head of NewNetwork: the error it returns, or "" when
\* the list passes.
DefsErrorLax(ds) ==
    IF Len(ds) < 2 THEN "at least one input and one loss layer are required"
    ELSE IF ds[1].Type # Input
    THEN "first layer must be the input layer, to declare size of inputs"
    ELSE ""

DefsError(ds) ==
    IF Len(ds) <= 2 THEN "at least one input and one loss layer are required"
    ELSE IF ds[1].Type # Input
    THEN "first layer must be the input layer, to declare size of inputs"
    ELSE ""

Recognized == {Dropout, Input, SoftMax, Regression, Conv, ReLU, Sigmoid, SVM}

\* The switch of NewNetwork's loop: the layer built for def (Panic when the
\* constructor panics).  The input and dropout constructors of the sources
\* take sizes; the builder hands them those of the definition.
NewLayer(def, rnd) ==
    CASE def.Type = Dropout -> NewDropoutLayer(def.Input.X, def.Input.Y, def.Input.Z)
      [] def.Type = Input -> NewInputLayer(def.Output.Z)
      [] def.Type = SoftMax -> NewSoftmaxLayer(def)
      [] def.Type = Regression -> NewRegressionLayer(def)
      [] def.Type = Conv -> NewConvLayer(def, rnd)
      [] def.Type = ReLU -> NewReluLayer(def)
      [] def.Type = Sigmoid -> NewSigmoidLayer(def)
      [] def.Type = SVM -> NewSVMLayer(def)

\* What NewNetwork yields: status "ok" (a network, nil error), "error" (nil
\* network, an error) or "panic"; instantiated counts the layers built.
NetResult(status, err, layers, count) ==
    [status |-> status, err |-> err,
     net |-> IF status = "ok" THEN [layers |-> layers] ELSE Nil,
     instantiated |-> count]

\* The loop of NewNetwork from its i-th definition on (1-based).
RECURSIVE BuildLayers(_, _, _, _)
BuildLayers(ds, i, newLayers, rnd) ==
    IF i > Len(ds) THEN NetResult("ok", "", newLayers, Len(newLayers))
    ELSE LET def == IF i > 1 THEN [ds[i] EXCEPT !.Input = ds[i - 1].Output] ELSE ds[i]
         IN IF def.Type \notin Recognized
            THEN NetResult("error", "unrecognized layer type", <<>>, Len(newLayers))
            ELSE LET l == NewLayer(def, rnd)
                 IN IF l = Panic
                    THEN NetResult("panic", "", <<>>, Len(newLayers))
                    ELSE BuildLayers(ds, i + 1, Append(newLayers, l), rnd)

NewNetwork(ds, rnd) ==
    IF DefsError(ds) # ""
    THEN NetResult("error", DefsError(ds), <<>>, 0)
    ELSE BuildLayers(ActivateLayers(ds), 1, <<>>, rnd)

(***************************************************************************)
(* Network (trainer.go) over its layers.  The trainer sees a network       *)
(* through Forward, the loss call and GetResponse; what it does with the   *)
(* Volumes is the layers' business, so a network step is modelled by the   *)
(* calls it makes (appended to the trace) and by the gradients it leaves   *)
(* in the parameter groups.                                                *)
(***************************************************************************)
Event(ev, arg) == [ev |-> ev, arg |-> arg]

\* LayerResponse
LayerResponse(weights, gradients, l1, l2) ==
    [Weights |-> weights, Gradients |-> gradients, L1DecayMul |-> l1, L2DecayMul |-> l2]

\* convLayer.GetResponse: one group per filter, then the biases.
ConvGetResponse(l) ==
    [i \in 1..l.output.Z |->
        LayerResponse(l.filters[i].w, l.filters[i].dw,
                      l.conf.L1DecayMult, l.conf.L2DecayMult)]
    \o <<LayerResponse(l.biases.w, l.biases.dw, 0, 0)>>

\* GetResponse of a layer: every kind but Conv returns the empty list.
LayerGetResponse(l) == IF l.Type = Conv THEN ConvGetResponse(l) ELSE <<>>

\* Network.GetResponse: the parameter groups of every layer, in chain order.
RECURSIVE CollectResponses(_, _)
CollectResponses(ls, i) ==
    IF i > Len(ls) THEN <<>>
    ELSE LayerGetResponse(ls[i]) \o CollectResponses(ls, i + 1)

GetResponse(nt) == CollectResponses(nt.layers, 1)

\* Network.Forward: the input is folded through every layer in order, the
\* training flag handed on unchanged.
RECURSIVE ForwardSweep(_, _, _, _)
ForwardSweep(n, i, training, tr) ==
    IF i > n THEN tr
    ELSE ForwardSweep(n, i + 1, training,
                      Append(tr, Event("Layer.Forward", i)))

NetworkForward(nt, training, tr) == ForwardSweep(Len(nt.layers), 1, training, tr)

\* The order in which Network.Backward visits the non-tail layers of a
\* chain of n layers: n-1 down to 1.
BackwardOrderWithTail(n) == [i \in 1..n |-> n + 1 - i]

BackwardOrder(n) == [i \in 1..(n - 1) |-> n - i]

\* What a backward pass leaves in the gradient plane of a parameter Volume:
\* pattern[i] at position i.
WithGradients(v, pattern) == [v EXCEPT !.dw = [i \in 1..v.n |-> pattern[i]]]

LayerBackwardEffect(l, pattern) ==
    IF l.Type = Conv
    THEN [l EXCEPT !.filters = [i \in 1..Len(l.filters) |->
                                   WithGradients(l.filters[i], pattern)],
                   !.biases = WithGradients(l.biases, pattern)]
    ELSE l

RECURSIVE BackwardSweep(_, _, _, _)
BackwardSweep(st, order, i, pattern) ==
    IF i > Len(order) THEN st
    ELSE BackwardSweep(
            [net |-> [st.net EXCEPT !.layers[order[i]] =
                         LayerBackwardEffect(@, pattern)],
             trace |-> Append(st.trace, Event("Layer.Backward", order[i]))],
            order, i + 1, pattern)

\* Network.Backward(index), Network.MultiDimensionalLoss(y): the tail's loss
\* call seeds the gradient and yields the cost, then Backward() runs on every
\* non-tail layer in reverse order.  cost is what the tail returns and
\* pattern the gradients the sweep leaves in the parameters.
NetworkBackward(nt, tr, cost, pattern) ==
    LET n == Len(nt.layers)
        st == BackwardSweep([net |-> nt, trace |-> Append(tr, Event("Loss", n))],
                            BackwardOrder(n), 1, pattern)
    IN [net |-> st.net, trace |-> st.trace, ret |-> cost]

(***************************************************************************)
(* Trainer (trainer.go)                                                    *)
(***************************************************************************)
SGD == "sgd"
Adam == "adam"
Adagrad == "adagrad"
Windowgrad == "windowgrad"
Adadelta == "adadelta"
Netsterov == "nesterov"

Methods == {SGD, Adam, Adagrad, Windowgrad, Adadelta, Netsterov}

\* Options, with the fields Train reads.
Options(method, lr, batchSize, momentum, l1Decay, l2Decay) ==
    [Method |-> method, LearningRate |-> lr, BatchSize |-> batchSize,
     Momentum |-> momentum, L1Decay |-> l1Decay, L2Decay |-> l2Decay]

\* NewTrainer(net, opts...), for a non-nil network: opts is baseOpts after
\* the option functions ran.
NewTrainer(nt, opts) ==
    [opts |-> opts, k |-> 0, gsum |-> <<>>, xsum |-> <<>>,
     regression |-> nt.layers[Len(nt.layers)].Type = Regression]

\* LabeledLossFunc(label) and RegressionLossFunc(y): both hand the call to
\* the network and return what it returns.
LossFunc(nt, tr, cost, pattern) == NetworkBackward(nt, tr, cost, pattern)

IncKMissing(k) == k

IncK(k) == k + 1

IsBatchBoundaryAlways(k, batchSize) == TRUE

IsBatchBoundary(k, batchSize) == k % batchSize = 0

\* len(t.gsum) == 0 && t.opts.Method == SGD || t.opts.Momentum > 0.0
NeedsAccumulators(tr) ==
    (Len(tr.gsum) = 0 /\ tr.opts.Method = SGD) \/ tr.opts.Momentum > 0

\* The accumulator-allocation loop over pgList.
RECURSIVE AllocAccumulators(_, _, _)
AllocAccumulators(tr, pgList, i) ==
    IF i > Len(pgList) THEN tr
    ELSE AllocAccumulators(
            [tr EXCEPT !.gsum = Append(@, Zeros(Len(pgList[i].Weights))),
                       !.xsum = Append(@, IF tr.opts.Method \in {Adam, Adadelta}
                                          THEN Zeros(Len(pgList[i].Weights))
                                          ELSE <<>>)],
            pgList, i + 1)

DecayNoMul(coef, mul) == coef

\* l1Decay := t.opts.L1Decay * l1DecayMul (and the same for l2)
Decay(coef, mul) == coef * mul

Abs(x) == IF x < 0 THEN -x ELSE x

\* The numerator of gij: l2Grad + l1Grad + g[j]; the code divides it by
\* BatchSize.
RawBatchGradient(l1Decay, l2Decay, p, g) ==
    LET l2Grad == l2Decay * p
        l1Grad == IF p <= 0 THEN l1Decay * (-1) ELSE l1Decay
    IN l2Grad + l1Grad + g

\* The inner loop of the update over the parameters j (0-based) of group i
\* (1-based).  acc carries the decay losses and the panic flag.  Every
\* method branch of the code is empty: neither p[j] nor the accumulators
\* are written.
RECURSIVE UpdateParams(_, _, _, _, _)
UpdateParams(tr, pg, i, j, acc) ==
    IF j >= Len(pg.Weights) \/ acc.panic THEN acc
    ELSE LET p == pg.Weights
             l1Decay == Decay(tr.opts.L1Decay, pg.L1DecayMul)
             l2Decay == Decay(tr.opts.L2Decay, pg.L2DecayMul)
             l2 == acc.l2DecayLoss + (l2Decay * p[j + 1] * p[j + 1]) \div 2
             l1 == acc.l1DecayLoss + l1Decay * Abs(p[j + 1])
         IN IF i > Len(tr.gsum) \/ i > Len(tr.xsum)
            THEN [acc EXCEPT !.panic = TRUE, !.l1DecayLoss = l1, !.l2DecayLoss = l2]
            ELSE UpdateParams(tr, pg, i, j + 1,
                              [acc EXCEPT !.l1DecayLoss = l1, !.l2DecayLoss = l2])

\* The outer loop over the parameter groups.
RECURSIVE UpdateGroups(_, _, _, _)
UpdateGroups(tr, pgList, i, acc) ==
    IF i > Len(pgList) \/ acc.panic THEN acc
    ELSE UpdateGroups(tr, pgList, i + 1, UpdateParams(tr, pgList[i], i, 0, acc))

\* TrainingResults (the two durations left out); status "panic" stands for
\* a call that did not return.
TrainingResults(l1, l2, cost) ==
    [status |-> "ok", L1DecayLoss |-> l1, L2DecayLoss |-> l2, CostLost |-> cost,
     TotalLoss |-> cost + l1 + l2]

Aborted == [status |-> "panic"]

\* trainer.Train(vol, lossFunc) on trainer tr and network nt.  cost and
\* pattern are what the loss call returns and leaves.  The result holds the
\* trainer and network after the call, what the call returned and the calls
\* it made.
Train(tr, nt, cost, pattern) ==
    LET fwd == Append(NetworkForward(nt, TRUE, <<Event("Forward", TRUE)>>),
                      Event("Forward returns", TRUE))
        loss == LossFunc(nt, Append(fwd, Event("lossFunc", 0)), cost, pattern)
        costLoss == loss.ret
        tr1 == [tr EXCEPT !.k = IncK(@)]
        trace1 == Append(Append(loss.trace, Event("lossFunc returns", costLoss)),
                         Event("k++", tr1.k))
        zero == [panic |-> FALSE, l1DecayLoss |-> 0, l2DecayLoss |-> 0]
    IN IF IsBatchBoundary(tr1.k, tr1.opts.BatchSize)
       THEN LET pgList == GetResponse(loss.net)
                trace2 == Append(trace1, Event("GetResponse", Len(pgList)))
                tr2 == IF NeedsAccumulators(tr1)
                       THEN AllocAccumulators(tr1, pgList, 1) ELSE tr1
                acc == UpdateGroups(tr2, pgList, 1, zero)
            IN [t |-> tr2, net |-> loss.net,
                trace |-> Append(trace2, Event("update", Len(pgList))),
                res |-> IF acc.panic THEN Aborted
                        ELSE TrainingResults(acc.l1DecayLoss, acc.l2DecayLoss, costLoss)]
       ELSE [t |-> tr1, net |-> loss.net, trace |-> trace1,
             res |-> TrainingResults(0, 0, costLoss)]

(***************************************************************************)
(* Loss layers (layers/svm.go, layers.go, layers/softmax.go).  A loss call *)
(* yields the new heap, what it returned and whether it panicked.          *)
(*                                                                         *)
(* The softmax works on exact fractions [num, den] in lowest terms.  Its   *)
(* input weights are counted in units of ln 2, so that math.Exp of a       *)
(* difference of weights is a power of two; math.Log of a fraction is kept *)
(* as a term.                                                              *)
(***************************************************************************)
RECURSIVE GCD(_, _)
GCD(a, b) == IF b = 0 THEN a ELSE GCD(b, a % b)

Frac(num, den) ==
    LET g == GCD(Abs(num), den) IN [num |-> num \div g, den |-> den \div g]

FracAdd(a, b) == Frac(a.num * b.den + b.num * a.den, a.den * b.den)

FracSub(a, b) == Frac(a.num * b.den - b.num * a.den, a.den * b.den)

FracNeg(a) == [num |-> 0 - a.num, den |-> a.den]

\* a / b for b > 0
FracDiv(a, b) == Frac(a.num * b.den, a.den * b.num)

RECURSIVE Pow2(_)
Pow2(k) == IF k <= 0 THEN 1 ELSE 2 * Pow2(k - 1)

\* math.Exp(x) for x <= 0 (x in units of ln 2)
Exp(x) == Frac(1, Pow2(0 - x))

\* -math.Log(f)
NegLog(f) == [neglog |-> f]

\* 0.5 * x, exact on the even products the model draws
Half(x) == x \div 2

LossResult(h, ret, panicked) == [heap |-> h, ret |-> ret, panic |-> panicked]

ForwardResult(h, l, ret, panicked) ==
    [heap |-> h, layer |-> l, ret |-> ret, panic |-> panicked]

IndexUnchecked(index, size) == FALSE

\* index < 0 || index >= l.outDim.Size()
IndexInvalid(index, size) == index < 0 \/ index >= size

PassThroughForwardCopy(h, l, a) ==
    ForwardResult(Append(h, Clone(h[a])), [CacheInput(l, a) EXCEPT !.outVol = Alloc(h)],
                  Alloc(h), FALSE)

\* svmLayer.Forward and regressionLayer.Forward: the input Volume itself is
\* cached as input and as output, and returned.
PassThroughForward(h, l, a) ==
    ForwardResult(h, [CacheInput(l, a) EXCEPT !.outVol = a], a, FALSE)

\* margin := 1.0
Margin == 1

ViolatesAlways(yDiff) == TRUE

\* if yDiff > 0
Violates(yDiff) == yDiff > 0

\* The loop of svmLayer.Loss over the n cells of the cached Volume v, from
\* cell i on; acc is the loss so far.
RECURSIVE SVMLossLoop(_, _, _, _, _, _)
SVMLossLoop(v, index, yScore, i, n, acc) ==
    IF i >= n THEN [vol |-> v, loss |-> acc]
    ELSE IF index = i THEN SVMLossLoop(v, index, yScore, i + 1, n, acc)
    ELSE LET yDiff == (0 - yScore) + GetByIndex(v, i) + Margin
         IN IF Violates(yDiff)
            THEN SVMLossLoop(AddGradByIndex(AddGradByIndex(v, i, 1), index, -1),
                             index, yScore, i + 1, n, acc + yDiff)
            ELSE SVMLossLoop(v, index, yScore, i + 1, n, acc)

\* svmLayer.Loss(index).  inVol and outVol are the same Volume.
SVMLoss(h, l, index) ==
    IF IndexInvalid(index, DimSize(l.outDim)) THEN LossResult(h, 0, TRUE)
    ELSE IF l.inVol = NilRef THEN LossResult(h, 0, TRUE)
    ELSE LET v0 == ZeroGrad(h[l.inVol])
         IN IF ~InRange(v0, index)
            THEN LossResult([h EXCEPT ![l.inVol] = v0], 0, TRUE)
            ELSE LET r == SVMLossLoop(v0, index, GetByIndex(v0, index), 0, Size(v0), 0)
                 IN LossResult([h EXCEPT ![l.inVol] = r.vol], r.loss, FALSE)

SVMBackward(h, l) == LossResult(h, 0, TRUE)

\* regressionLayer.DimensionalLoss(index, value)
DimensionalLoss(h, l, index, value) ==
    IF IndexInvalid(index, DimSize(l.outDim)) THEN LossResult(h, 0, TRUE)
    ELSE IF l.inVol = NilRef THEN LossResult(h, 0, TRUE)
    ELSE LET v0 == ZeroGrad(h[l.inVol])
         IN IF ~InRange(v0, index)
            THEN LossResult([h EXCEPT ![l.inVol] = v0], 0, TRUE)
            ELSE LET dY == GetByIndex(v0, index) - value
                 IN LossResult([h EXCEPT ![l.inVol] = SetGradByIndex(v0, index, dY)],
                               0 + Half(dY * dY), FALSE)

\* regressionLayer.MultiDimensionalLoss(y): the loop over the outDim.Size()
\* dimensions panics at the first one beyond the buffer of the cached
\* Volume, after it wrote the gradient of those before.
MultiDimensionalLoss(h, l, y) ==
    IF Len(y) # DimSize(l.outDim) THEN LossResult(h, 0, TRUE)
    ELSE IF l.inVol = NilRef THEN LossResult(h, 0, TRUE)
    ELSE LET v0 == ZeroGrad(h[l.inVol])
             n == DimSize(l.outDim)
             m == IF n <= Len(v0.w) THEN n ELSE Len(v0.w)
             dY == [i \in 1..m |-> v0.w[i] - y[i]]
             v1 == [v0 EXCEPT !.dw = [i \in 1..Len(@) |-> IF i <= m THEN dY[i] ELSE 0]]
         IN LossResult([h EXCEPT ![l.inVol] = v1],
                       SumSeq([i \in 1..m |-> Half(dY[i] * dY[i])]), n > Len(v0.w))

RegressionBackwardSilent(h, l) == LossResult(h, 0, FALSE)

RegressionBackward(h, l) == LossResult(h, 0, TRUE)

\* The max loop of softmaxLayer.Forward over as[0..n), from aMax = as[0].
RECURSIVE MaxActivation(_, _, _, _)
MaxActivation(as, aMax, i, n) ==
    IF i >= n THEN aMax
    ELSE MaxActivation(as, IF as[i + 1] > aMax THEN as[i + 1] ELSE aMax, i + 1, n)

RECURSIVE FracSum(_, _)
FracSum(es, i) == IF i > Len(es) THEN Frac(0, 1) ELSE FracAdd(es[i], FracSum(es, i + 1))

\* softmaxLayer.Forward: the probabilities of the first n = outDim.Z weights
\* of the input, written to a fresh Volume and cached in l.es.  Reading
\* as[i] beyond the input's buffer panics, after l.inVol was assigned.
SoftmaxForward(h, l, a) ==
    LET l1 == CacheInput(l, a)
        n == l.outDim.Z
        volA == NewVolumeD(l.outDim, <<[fn |-> "WithZeros", arg |-> 0]>>, <<>>)
        as == h[a].w
    IN IF Len(as) = 0 \/ n > Len(as) THEN ForwardResult(h, l1, NilRef, TRUE)
       ELSE LET aMax == MaxActivation(as, as[1], 0, n)
                e == [i \in 1..n |-> Exp(as[i] - aMax)]
                esum == FracSum(e, 1)
                es == [i \in 1..n |-> FracDiv(e[i], esum)]
                out == [volA EXCEPT !.w = Copy(volA.w, es)]
            IN ForwardResult(Append(h, out),
                             [l1 EXCEPT !.es = es, !.outVol = Alloc(h)],
                             Alloc(h), FALSE)

IndicatorNone(i, index) == 0

Indicator(i, index) == IF i = index THEN 1 ELSE 0

\* The gradient loop of softmaxLayer.Loss from class i on; it panics on a
\* class beyond l.es or beyond the buffer of the cached input v.
RECURSIVE SoftmaxLossLoop(_, _, _, _, _)
SoftmaxLossLoop(v, es, index, i, n) ==
    IF i >= n THEN [vol |-> v, panic |-> FALSE]
    ELSE IF i >= Len(es) \/ ~InRange(v, i) THEN [vol |-> v, panic |-> TRUE]
    ELSE SoftmaxLossLoop(
            SetGradByIndex(v, i,
                FracNeg(FracSub(Frac(Indicator(i, index), 1), es[i + 1]))),
            es, index, i + 1, n)

\* softmaxLayer.Loss(index): no check of index before the gradient is
\* written; l.es[index] panics on an index outside l.es.
SoftmaxLoss(h, l, index) ==
    IF l.inVol = NilRef THEN LossResult(h, 0, TRUE)
    ELSE LET r == SoftmaxLossLoop(ZeroGrad(h[l.inVol]), l.es, index, 0, l.outDim.Z)
             h1 == [h EXCEPT ![l.inVol] = r.vol]
         IN IF r.panic THEN LossResult(h1, 0, TRUE)
            ELSE IF index < 0 \/ index >= Len(l.es) THEN LossResult(h1, 0, TRUE)
            ELSE LossResult(h1, NegLog(l.es[index + 1]), FALSE)

\* softmaxLayer.Backward has an empty body.
SoftmaxBackward(h, l) == LossResult(h, 0, FALSE)

(***************************************************************************)
(* SpecVol: a Volume, built by NewVolume, under the accessors              *)
(***************************************************************************)
DimRange == 1..MaxDim

VolDims == {d \in DimRange \X DimRange \X DimRange : d[1] * d[2] * d[3] <= MaxCells}

\* Coordinates a caller may pass along an axis of extent s: the in-bounds
\* ones and one step beyond.
Coord(s) == 0..s

InBounds(v, x, y, d) ==
    /\ 0 <= x /\ x < v.sx
    /\ 0 <= y /\ y < v.sy
    /\ 0 <= d /\ d < v.depth

\* One accessor call: volOp records the call, whether it panicked (the index
\* left the buffer) and the value it returned.
VolCall(op, x, y, d, val, panicked, ret) ==
    [op |-> op, x |-> x, y |-> y, d |-> d, val |-> val,
     panic |-> panicked, ret |-> ret]

NoOp == VolCall("none", 0, 0, 0, 0, FALSE, 0)

InitVol ==
    /\ \E dims \in VolDims, fill \in VolVals :
          vol = NewVolume(dims[1], dims[2], dims[3],
                          <<[fn |-> "WithInitialValue", arg |-> fill]>>, <<>>)
    /\ volOp = NoOp
    /\ defs = Unused /\ nn = Unused
    /\ heap = Unused /\ layer = Unused /\ calls = Unused
    /\ net = Unused /\ t = Unused /\ res = Unused /\ trace = Unused

OtherThanVol == <<defs, nn, heap, layer, calls, net, t, res, trace>>

VolSet ==
    \E x \in Coord(vol.sx), y \in Coord(vol.sy), d \in Coord(vol.depth), val \in VolVals :
        LET ok == InRange(vol, getIndex(vol, x, y, d))
        IN /\ vol' = IF ok THEN Set(vol, x, y, d, val) ELSE vol
           /\ volOp' = VolCall("Set", x, y, d, val, ~ok, 0)
           /\ UNCHANGED OtherThanVol

VolGet ==
    \E x \in Coord(vol.sx), y \in Coord(vol.sy), d \in Coord(vol.depth) :
        LET ok == InRange(vol, getIndex(vol, x, y, d))
        IN /\ volOp' = VolCall("Get", x, y, d, 0, ~ok,
                               IF ok THEN Get(vol, x, y, d) ELSE 0)
           /\ UNCHANGED vol
           /\ UNCHANGED OtherThanVol

VolSetGrad ==
    \E x \in Coord(vol.sx), y \in Coord(vol.sy), d \in Coord(vol.depth), val \in GradVals :
        LET ok == InRange(vol, getIndex(vol, x, y, d))
        IN /\ vol' = IF ok THEN SetGrad(vol, x, y, d, val) ELSE vol
           /\ volOp' = VolCall("SetGrad", x, y, d, val, ~ok, 0)
           /\ UNCHANGED OtherThanVol

VolZeroGrad ==
    /\ vol' = ZeroGrad(vol)
    /\ volOp' = VolCall("ZeroGrad", 0, 0, 0, 0, FALSE, 0)
    /\ UNCHANGED OtherThanVol

\* v.Clone() and v.CloneAndZero(): the call reads v and returns a fresh
\* Volume, recorded in volOp.out.
CloneCall(op, out) ==
    [op |-> op, x |-> 0, y |-> 0, d |-> 0, val |-> 0, panic |-> FALSE, ret |-> 0,
     out |-> out]

VolClone ==
    /\ volOp' = CloneCall("Clone", Clone(vol))
    /\ UNCHANGED vol
    /\ UNCHANGED OtherThanVol

VolCloneAndZero ==
    /\ volOp' = CloneCall("CloneAndZero", CloneAndZero(vol))
    /\ UNCHANGED vol
    /\ UNCHANGED OtherThanVol

NextVol ==
    VolSet \/ VolGet \/ VolSetGrad \/ VolZeroGrad \/ VolClone \/ VolCloneAndZero

SpecVol == InitVol /\ [][NextVol]_vars

InBoundsCoords(v) ==
    {c \in (0..(v.sx - 1)) \X (0..(v.sy - 1)) \X (0..(v.depth - 1)) : TRUE}

IndexInjective(v) ==
    \A c1 \in InBoundsCoords(v), c2 \in InBoundsCoords(v) :
        /\ getIndex(v, c1[1], c1[2], c1[3]) >= 0
        /\ getIndex(v, c1[1], c1[2], c1[3]) < v.sx * v.sy * v.depth
        /\ (getIndex(v, c1[1], c1[2], c1[3]) = getIndex(v, c2[1], c2[2], c2[3])
               => c1 = c2)

SetAtInBounds ==
    /\ volOp'.op = "Set"
    /\ InBounds(vol, volOp'.x, volOp'.y, volOp'.d)

SetThenGet ==
    /\ ~volOp'.panic
    /\ InRange(vol', getIndex(vol', volOp'.x, volOp'.y, volOp'.d))
    /\ Get(vol', volOp'.x, volOp'.y, volOp'.d) = volOp'.val
    /\ \A c \in InBoundsCoords(vol) :
          c # <<volOp'.x, volOp'.y, volOp'.d>>
             => Get(vol', c[1], c[2], c[3]) = Get(vol, c[1], c[2], c[3])
    /\ vol'.dw = vol.dw

\* C10: getIndex maps the in-bounds coordinates of a Volume injectively into
\* [0, sx*sy*depth); a Set at in-bounds coordinates does not panic, a Get at
\* the same coordinates then returns the value written, and the Set changes
\* no weight at any other in-bounds coordinate and no gradient.
C10_IndexInjectiveSetGet ==
    /\ [](IndexInjective(vol))
    /\ [][SetAtInBounds => SetThenGet]_vars

\* A Set of a non-zero value at an in-bounds cell of a 2x2 Volume that holds
\* a non-zero gradient.
C10_Witness ==
    /\ volOp.op = "Set" /\ ~volOp.panic /\ volOp.val # 0
    /\ InBounds(vol, volOp.x, volOp.y, volOp.d)
    /\ vol.sx = 2 /\ vol.sy = 2
    /\ volOp.x = 1 /\ volOp.y = 1
    /\ \E i \in 1..vol.n : vol.dw[i] # 0

SameDims(a, b) ==
    a.sx = b.sx /\ a.sy = b.sy /\ a.depth = b.depth /\ a.n = b.n

AllZero(xs, n) == Len(xs) = n /\ \A i \in 1..n : xs[i] = 0

CloneIsCopy ==
    volOp'.op = "Clone" =>
        /\ SameDims(volOp'.out, vol)
        /\ volOp'.out.w = vol.w
        /\ AllZero(volOp'.out.dw, vol.n)
        /\ vol' = vol

CloneAndZeroIsBlank ==
    volOp'.op = "CloneAndZero" =>
        /\ SameDims(volOp'.out, vol)
        /\ AllZero(volOp'.out.w, vol.n)
        /\ AllZero(volOp'.out.dw, vol.n)
        /\ vol' = vol

\* C11: for any Volume v, whatever its gradient plane holds, v.Clone() has
\* the dimensions and the weights of v and an all-zero gradient plane,
\* v.CloneAndZero() has the dimensions of v with all-zero weights and
\* gradients, and neither call changes v.
C11_CloneCopiesWeightsOnly == [][CloneIsCopy /\ CloneAndZeroIsBlank]_vars

\* Clone was called on a Volume that holds non-zero weights and a non-zero
\* gradient.
C11_Witness ==
    /\ volOp.op = "Clone"
    /\ vol.n > 1
    /\ \E i \in 1..vol.n : vol.w[i] # 0
    /\ \E i \in 1..vol.n : vol.dw[i] # 0
    /\ volOp.out.w = vol.w

(***************************************************************************)
(* SpecNew: one call of NewVolume, on dimensions and option functions the  *)
(* caller chose                                                            *)
(***************************************************************************)
\* The weight vectors a caller hands to WithWeights: every length from the
\* empty slice up to MaxDim.
WeightVectors == UNION {[1..k -> VolVals] : k \in 0..MaxDim}

OptChoices ==
    {[fn |-> "WithInitialValue", arg |-> 2], [fn |-> "WithZeros", arg |-> 0]}
    \cup {[fn |-> "WithWeights", arg |-> w] : w \in WeightVectors}

\* The option lists of a call: none, one or two option functions.
OptLists == {<<>>} \cup {<<o>> : o \in OptChoices} \cup (OptChoices \X OptChoices)

NewCall(sx, sy, depth, optFuncs, done) ==
    [op |-> "NewVolume", sx |-> sx, sy |-> sy, depth |-> depth,
     optFuncs |-> optFuncs, done |-> done]

NoVolume == [none |-> TRUE]

InitNew ==
    /\ \E sx \in DimRange, sy \in DimRange, depth \in DimRange, optFuncs \in OptLists :
          volOp = NewCall(sx, sy, depth, optFuncs, FALSE)
    /\ vol = NoVolume
    /\ defs = Unused /\ nn = Unused
    /\ heap = Unused /\ layer = Unused /\ calls = Unused
    /\ net = Unused /\ t = Unused /\ res = Unused /\ trace = Unused

\* The call runs; the generator yields 2 for every Gaussian draw.
CallNewVolume ==
    /\ ~volOp.done
    /\ vol' = NewVolume(volOp.sx, volOp.sy, volOp.depth, volOp.optFuncs,
                        [i \in 1..(volOp.sx * volOp.sy * volOp.depth) |-> 2])
    /\ volOp' = [volOp EXCEPT !.done = TRUE]
    /\ UNCHANGED OtherThanVol

NextNew == CallNewVolume

SpecNew == InitNew /\ [][NextNew]_vars

\* The call passed WithWeights and no other option.
OnlyWeights == Len(volOp.optFuncs) = 1 /\ volOp.optFuncs[1].fn = "WithWeights"

\* C12: NewVolume given only an explicit weight vector aborts when the
\* vector's length differs from depth, or sx # 1, or sy # 1; when sx = sy = 1
\* and the length equals depth it returns a Volume whose weights are the
\* given vector and whose gradient plane is all zero.
C12_ExplicitWeightsShape ==
    (volOp.done /\ OnlyWeights) =>
        LET w == volOp.optFuncs[1].arg
        IN IF Len(w) # volOp.depth \/ volOp.sx # 1 \/ volOp.sy # 1
           THEN vol = Panic
           ELSE /\ vol # Panic
                /\ vol.sx = 1 /\ vol.sy = 1 /\ vol.depth = volOp.depth
                /\ vol.w = w
                /\ AllZero(vol.dw, volOp.depth)

\* A 1x1x2 Volume was built from the weight vector (2, 0).
C12_Witness ==
    /\ volOp.done /\ OnlyWeights
    /\ volOp.sx = 1 /\ volOp.sy = 1 /\ volOp.depth = 2
    /\ volOp.optFuncs[1].arg = <<2, 0>>
    /\ vol # Panic
    /\ vol.w = <<2, 0>>

\* The call's last option is WithInitialValue.
LastIsInitialValue ==
    /\ volOp.optFuncs # <<>>
    /\ volOp.optFuncs[Len(volOp.optFuncs)].fn = "WithInitialValue"

\* C30: the fill options of NewVolume compose so that the last one applied
\* decides: WithInitialValue(v) applied to any options value, one on which
\* WithZeros() was applied earlier included, yields HasInitialValue = true,
\* InitialValue = v and Zero = false, and NewVolume(dims, WithZeros(),
\* WithInitialValue(v)) fills every weight with v.
C30_LastFillOptionDecides ==
    (volOp.done /\ LastIsInitialValue) =>
        LET v == volOp.optFuncs[Len(volOp.optFuncs)].arg
            opts == ApplyOpts(volOp.optFuncs, VolumeOptions)
        IN /\ opts.HasInitialValue
           /\ opts.InitialValue = v
           /\ ~opts.Zero
           /\ vol # Panic
           /\ vol.w = [i \in 1..(volOp.sx * volOp.sy * volOp.depth) |-> v]

(***************************************************************************)
(* SpecNet: a caller assembles a layer-definition list and calls           *)
(* NewNetwork on it                                                        *)
(***************************************************************************)
ConvK1 == NewConvLayerConfig(1, <<[fn |-> "WithConvSx", a |-> 1, b |-> 0]>>)
ConvK2 == NewConvLayerConfig(1, <<[fn |-> "WithConvSx", a |-> 2, b |-> 0]>>)

D221 == Dim(2, 2, 1)
D111 == Dim(1, 1, 1)

\* The definitions the caller draws from.
DefChoices ==
    {LayerDef(Input, o, Nil, "none") : o \in {D221, D111}}
    \cup {LayerDef(ReLU, o, Nil, "none") : o \in {D221, D111, Dim(1, 1, 0)}}
    \cup {LayerDef(ty, D111, Nil, "none") :
            ty \in {Sigmoid, Dropout, SoftMax, SVM, Regression, LocalResponseNorm}}
    \cup {LayerDef(Conv, o, c, "none") :
            o \in {D221, D111}, c \in {Nil, OtherConfig, ConvK1, ConvK2}}
    \cup {LayerDef(Conv, o, ConvK2, "relu") : o \in {D221, D111}}

NotCalled == [status |-> "none"]

InitNet ==
    /\ defs = <<>>
    /\ nn = NotCalled
    /\ vol = Unused /\ volOp = Unused
    /\ heap = Unused /\ layer = Unused /\ calls = Unused
    /\ net = Unused /\ t = Unused /\ res = Unused /\ trace = Unused

OtherThanNet == <<vol, volOp, heap, layer, calls, net, t, res, trace>>

\* The caller appends a definition to its list.
AddDef ==
    /\ nn = NotCalled
    /\ Len(defs) < MaxDefs
    /\ \E d \in DefChoices : defs' = Append(defs, d)
    /\ UNCHANGED nn
    /\ UNCHANGED OtherThanNet

\* The caller calls NewNetwork(defs); fill is what the random generator
\* yields for the filter weights.
CallNewNetwork ==
    /\ nn = NotCalled
    /\ \E fill \in VolVals :
          nn' = NewNetwork(defs, [i \in 1..MaxCells |-> fill])
    /\ UNCHANGED defs
    /\ UNCHANGED OtherThanNet

NextNet == AddDef \/ CallNewNetwork

SpecNet == InitNet /\ [][NextNet]_vars

\* C5: NewNetwork returns an error and a nil network, and has instantiated no
\* layer, whenever the definition list has fewer than 3 entries or its first
\* entry is not of kind Input.
C5_ShortOrHeadlessListRejected ==
    (nn # NotCalled /\ (Len(defs) < 3 \/ defs[1].Type # Input))
        => (nn.status = "error" /\ nn.err # "" /\ nn.net = Nil /\ nn.instantiated = 0)

\* NewNetwork was called on a two-entry list that starts with Input.
C5_WitnessShort == nn # NotCalled /\ Len(defs) = 2 /\ defs[1].Type = Input

LossCapable == {SoftMax, SVM, Regression}

\* C6: every network NewNetwork returns without error has at least 3 layers,
\* its first layer is the Input variant and its last layer is a loss-capable
\* variant (SoftMax, SVM or Regression).
C6_NetworkShape ==
    nn.status = "ok"
        => LET ls == nn.net.layers
           IN /\ Len(ls) >= 3
              /\ ls[1].Type = Input
              /\ ls[Len(ls)].Type \in LossCapable

\* The dimensions of the Volume a layer's Forward returns for an input
\* Volume of dimensions in: the input itself or a Clone of it keeps in, a
\* Conv or SoftMax layer allocates its own output dimensions.
ForwardDims(l, in) ==
    CASE l.Type = Conv -> l.output
      [] l.Type = SoftMax -> l.outDim
      [] OTHER -> in

\* The input dimensions the i-th layer was constructed with: the declared
\* output of the definition before it (the declared input shape for i = 1).
ConstructedInput(ds, i) == IF i > 1 THEN ds[i - 1].Output ELSE ds[1].Output

\* C7: in every network NewNetwork returns without error, the output
\* dimensions each layer produces (from an input of the dimensions it was
\* constructed for) equal the input dimensions the next layer was
\* constructed with.
C7_AdjacentDimsAgree ==
    nn.status = "ok"
        => LET ds == ActivateLayers(defs)
               ls == nn.net.layers
           IN \A i \in 1..(Len(ls) - 1) :
                 ForwardDims(ls[i], ConstructedInput(ds, i)) = ConstructedInput(ds, i + 1)

(***************************************************************************)
(* SpecLayer: one layer, the Volumes its caller holds and the Volumes its  *)
(* Forward calls allocate.  The caller makes Forward and Backward calls in *)
(* any order.                                                              *)
(***************************************************************************)
LayerDim == Dim(1, 1, 2)

LayerCells == DimSize(LayerDim)

\* The layers under test.
LayerChoices ==
    {NewReluLayer(LayerDef(ReLU, LayerDim, Nil, "none"))}
    \cup {NewDropoutLayerWithProb(LayerDim.X, LayerDim.Y, LayerDim.Z, prob) :
            prob \in 0..ProbDen}

\* Weight vectors with a negative, a zero and a positive entry among them.
CallerWeights == {<<-2, 2>>, <<0, 2>>}

\* The two Volumes the caller holds: explicit weights, and a gradient plane
\* that is clear or was written by an earlier use.
CallerVolumes ==
    {[v EXCEPT !.dw = [i \in 1..v.n |-> g]] :
        v \in {NewVolumeD(LayerDim, <<[fn |-> "WithWeights", arg |-> w]>>, <<>>) :
                 w \in CallerWeights},
        g \in GradVals}

Call(op, a, training, ret, panicked) ==
    [op |-> op, vol |-> a, training |-> training, ret |-> ret, panic |-> panicked]

InitLayer ==
    /\ layer \in LayerChoices
    /\ \E a \in CallerVolumes, b \in CallerVolumes : heap = <<a, b>>
    /\ calls = <<>>
    /\ vol = Unused /\ volOp = Unused
    /\ defs = Unused /\ nn = Unused
    /\ net = Unused /\ t = Unused /\ res = Unused /\ trace = Unused

OtherThanLayer == <<vol, volOp, defs, nn, net, t, res, trace>>

\* The references the caller passes to Forward: the Volumes it created.
CallerRefs == {1, 2}

LayerForward ==
    /\ Len(calls) < MaxCalls
    /\ \E a \in CallerRefs, training \in BOOLEAN :
          \E mask \in DropMasks(LayerCells,
                                IF layer.Type = Dropout THEN layer.DropoutProb ELSE 0) :
             LET r == IF layer.Type = ReLU THEN ReluForward(heap, layer, a)
                      ELSE DropoutForward(heap, layer, a, training, mask)
             IN /\ heap' = r.heap
                /\ layer' = r.layer
                /\ calls' = Append(calls, Call("Forward", a, training, r.ret, FALSE))
    /\ UNCHANGED OtherThanLayer

\* The gradient planes the consumer of the layer's output may have written
\* into it by the time Backward runs.
UpstreamGrads == [1..LayerCells -> GradVals]

\* One Backward call, on the upstream gradient g that the consumer of the
\* output has written into the output's gradient plane.  Backward
\* dereferences the cached Volumes: a nil-pointer panic before the first
\* Forward.
LayerBackward ==
    /\ Len(calls) < MaxCalls
    /\ IF layer.inVol = NilRef
       THEN /\ calls' = Append(calls, Call("Backward", NilRef, FALSE, NilRef, TRUE))
            /\ UNCHANGED heap
       ELSE \E g \in UpstreamGrads :
              LET h == [heap EXCEPT ![layer.outVol].dw = g]
              IN /\ heap' = IF layer.Type = ReLU THEN ReluBackward(h, layer)
                            ELSE DropoutBackward(h, layer)
                 /\ calls' = Append(calls, Call("Backward", NilRef, FALSE, NilRef, FALSE))
    /\ UNCHANGED layer
    /\ UNCHANGED OtherThanLayer

NextLayer == LayerForward \/ LayerBackward

SpecLayer == InitLayer /\ [][NextLayer]_vars

\* A Backward step that follows two Forward calls on different Volumes.
InterleavedBackward ==
    /\ Len(calls) >= 2
    /\ calls' = Append(calls, Call("Backward", NilRef, FALSE, NilRef, FALSE))
    /\ calls[Len(calls) - 1].op = "Forward"
    /\ calls[Len(calls)].op = "Forward"
    /\ calls[Len(calls) - 1].vol # calls[Len(calls)].vol

\* At position i (1-based) the layer's Backward lets no gradient through.
Blocks(h, l, i) ==
    IF l.Type = ReLU THEN h[l.outVol].w[i] <= 0 ELSE l.dropped[i]

BackwardServesLastForward ==
    LET a == calls[Len(calls) - 1].vol
        outA == calls[Len(calls) - 1].ret
        b == calls[Len(calls)].vol
        outB == calls[Len(calls)].ret
    IN /\ layer.inVol = b /\ layer.outVol = outB
       /\ \A i \in 1..LayerCells :
             heap'[b].dw[i] = IF Blocks(heap, layer, i) THEN 0 ELSE heap'[outB].dw[i]
       /\ heap'[a].dw = heap[a].dw
       /\ heap'[outA] = heap[outA]

\* C9: each Forward overwrites the layer's cached input/output references:
\* when Forward(A), Forward(B), Backward follow one another on one layer,
\* Backward zeroes and writes the gradient plane of B's input Volume from B's
\* output, and A's input Volume receives no gradient.
C9_BackwardUsesLastForward ==
    [][InterleavedBackward => BackwardServesLastForward]_vars

\* Forward(A), Forward(B), Backward happened: B holds a gradient written by
\* that Backward while A still holds the stale gradient it started with.
C9_Witness ==
    /\ Len(calls) = 3
    /\ calls[1].op = "Forward" /\ calls[2].op = "Forward" /\ calls[3].op = "Backward"
    /\ calls[1].vol = 1 /\ calls[2].vol = 2
    /\ heap[2].dw = <<0, 1>>
    /\ heap[1].dw = <<1, 1>>
    /\ heap[calls[1].ret].dw = <<0, 0>>

\* The step is a Forward call in training mode on a Dropout layer.
DropoutTrainingForward ==
    /\ layer.Type = Dropout
    /\ Len(calls') = Len(calls) + 1
    /\ calls'[Len(calls')].op = "Forward"
    /\ calls'[Len(calls')].training

\* The output holds 0 at the positions recorded as dropped and the input at
\* all others.
DropoutMasksOutput ==
    LET c == calls'[Len(calls')]
        in == heap[c.vol]
        out == heap'[c.ret]
    IN /\ ~c.panic
       /\ \A i \in 1..LayerCells :
             out.w[i] = IF layer'.dropped[i] THEN 0 ELSE in.w[i]
       /\ layer.DropoutProb = ProbDen => \A i \in 1..LayerCells : out.w[i] = 0
       /\ layer.DropoutProb = 0 => out.w = in.w

\* The step is a Backward call that follows a Forward call in training mode
\* on a Dropout layer.
DropoutBackwardAfterTraining ==
    /\ layer.Type = Dropout
    /\ calls # <<>>
    /\ calls[Len(calls)].op = "Forward"
    /\ calls[Len(calls)].training
    /\ Len(calls') = Len(calls) + 1
    /\ calls'[Len(calls')].op = "Backward"

DropoutRoutesGradient ==
    /\ ~calls'[Len(calls')].panic
    /\ \A i \in 1..LayerCells :
          heap'[layer.inVol].dw[i] =
              IF layer.dropped[i] THEN 0 ELSE heap'[layer.outVol].dw[i]

\* C18: Dropout Forward in training mode zeroes exactly the output elements
\* it records as dropped and copies the input at all others, so with
\* dropoutProb = 1.0 every output element is 0 and with dropoutProb = 0.0 the
\* output equals the input; the following Backward sets the input gradient
\* to the upstream gradient at every position not dropped and to 0 at every
\* dropped position.
C18_DropoutMask ==
    [][(DropoutTrainingForward => DropoutMasksOutput)
       /\ (DropoutBackwardAfterTraining => DropoutRoutesGradient)]_vars

\* Forward in training mode dropped the first of two elements and kept the
\* second; Backward then routed the upstream gradient (1, 1) to the second
\* position only.
C18_Witness ==
    /\ layer.Type = Dropout /\ layer.DropoutProb = 1
    /\ Len(calls) = 2
    /\ calls[1].op = "Forward" /\ calls[1].training /\ calls[2].op = "Backward"
    /\ layer.dropped = <<TRUE, FALSE>>
    /\ heap[layer.inVol].w = <<0 - 2, 2>>
    /\ heap[layer.outVol].w = <<0, 2>>
    /\ heap[layer.outVol].dw = <<1, 1>>
    /\ heap[layer.inVol].dw = <<0, 1>>

\* The step is a Forward call on a ReLU layer.
ReluForwardStep ==
    /\ layer.Type = ReLU
    /\ Len(calls') = Len(calls) + 1
    /\ calls'[Len(calls')].op = "Forward"

ReluRectifies ==
    LET c == calls'[Len(calls')]
        in == heap[c.vol]
        out == heap'[c.ret]
    IN /\ ~c.panic
       /\ \A i \in 1..LayerCells :
             out.w[i] = IF in.w[i] > 0 THEN in.w[i] ELSE 0

\* The step is a Backward call on a ReLU layer that a Forward had fed.
ReluBackwardStep ==
    /\ layer.Type = ReLU
    /\ layer.inVol # NilRef
    /\ Len(calls') = Len(calls) + 1
    /\ calls'[Len(calls')].op = "Backward"

ReluGatesGradient ==
    /\ ~calls'[Len(calls')].panic
    /\ \A i \in 1..LayerCells :
          heap'[layer.inVol].dw[i] =
              IF heap[layer.outVol].w[i] <= 0 THEN 0 ELSE heap'[layer.outVol].dw[i]

\* C19: ReLU Forward outputs max(0, input) elementwise, and ReLU Backward,
\* for any upstream gradient on the cached output, sets the input gradient
\* at position i to 0 when the cached output at i is <= 0 and to the
\* upstream gradient at i otherwise, overwriting whatever the input gradient
\* plane held before.
C19_ReluGate ==
    [][(ReluForwardStep => ReluRectifies) /\ (ReluBackwardStep => ReluGatesGradient)]_vars

\* Forward on (0, 2) gave (0, 2); Backward on the upstream gradient (1, 1)
\* left the gradient (0, 1) in the input.
C19_Witness ==
    /\ layer.Type = ReLU
    /\ Len(calls) = 2
    /\ calls[1].op = "Forward" /\ calls[2].op = "Backward" /\ ~calls[2].panic
    /\ heap[layer.inVol].w = <<0, 2>>
    /\ heap[layer.outVol].w = <<0, 2>>
    /\ heap[layer.outVol].dw = <<1, 1>>
    /\ heap[layer.inVol].dw = <<0, 1>>

\* A Backward step of a Dropout layer whose last call was a Forward in
\* inference mode.
DropoutBackwardAfterInference ==
    /\ layer.Type = Dropout
    /\ calls # <<>>
    /\ calls[Len(calls)].op = "Forward"
    /\ ~calls[Len(calls)].training
    /\ calls' = Append(calls, Call("Backward", NilRef, FALSE, NilRef, FALSE))

\* C29: Dropout Backward uses the mask of the most recent Forward: when
\* the last Forward ran in inference mode, where no element is dropped,
\* Backward copies the upstream gradient to every position of the input
\* gradient, whichever positions an earlier training-mode Forward dropped.
C29_DropoutBackwardAfterInference ==
    [][DropoutBackwardAfterInference =>
          heap'[layer.inVol].dw = heap'[layer.outVol].dw]_vars

(***************************************************************************)
(* Spec: a trainer, built by NewTrainer on a network built by NewNetwork,  *)
(* stepped by Train                                                        *)
(***************************************************************************)
TrainInputDim == Dim(1, 1, 2)

ConvDecayed ==
    NewConvLayerConfig(1, <<[fn |-> "WithConvSx", a |-> 1, b |-> 0],
                            [fn |-> "WithConvDecay", a |-> 1, b |-> 1],
                            [fn |-> "WithConvBias", a |-> 2, b |-> 0]>>)

\* The networks trained: a decayed convolution under SoftMax, a network
\* without parameters under SVM, and a convolution with an implied ReLU
\* under Regression.
TrainDefs ==
    {<<LayerDef(Input, TrainInputDim, Nil, "none"),
       LayerDef(Conv, D111, ConvDecayed, "none"),
       LayerDef(SoftMax, D111, Nil, "none")>>,
     <<LayerDef(Input, D111, Nil, "none"),
       LayerDef(ReLU, D111, Nil, "none"),
       LayerDef(SVM, D111, Nil, "none")>>,
     <<LayerDef(Input, D111, Nil, "none"),
       LayerDef(Conv, D111, ConvK1, "relu"),
       LayerDef(Regression, D111, Nil, "none")>>}

\* What the random generator yields for the filter weights.
TrainFills == {<<2, -2>>, <<-2, 0>>}

BatchSizes == {1, 2, 3}
Momenta == {0, 1}
DecayCoefs == {0, 1}
LearningRates == {1}

TrainOptions ==
    {Options(m, lr, b, mo, l1, l2) :
        m \in Methods, lr \in LearningRates, b \in BatchSizes, mo \in Momenta,
        l1 \in DecayCoefs, l2 \in DecayCoefs}

\* The costs a loss call returns and the gradients a backward pass leaves.
Costs == {0, 1, 3}
GradPatterns == [1..DimSize(TrainInputDim) -> GradVals]

NoResult == [status |-> "none"]

Init ==
    /\ \E ds \in TrainDefs, fill \in TrainFills, opts \in TrainOptions :
          /\ net = NewNetwork(ds, fill).net
          /\ t = NewTrainer(NewNetwork(ds, fill).net, opts)
    /\ res = NoResult
    /\ trace = <<>>
    /\ vol = Unused /\ volOp = Unused
    /\ defs = Unused /\ nn = Unused
    /\ heap = Unused /\ layer = Unused /\ calls = Unused

OtherThanTrainer == <<vol, volOp, defs, nn, heap, layer, calls>>

TrainWith(cost, pattern) ==
    LET r == Train(t, net, cost, pattern)
    IN /\ t' = r.t
       /\ net' = r.net
       /\ res' = r.res
       /\ trace' = r.trace
       /\ UNCHANGED OtherThanTrainer

\* Train(vol, LabeledLossFunc(label)) on a classification network.
TrainLabeled ==
    /\ t.k < MaxK
    /\ ~t.regression
    /\ \E cost \in Costs, pattern \in GradPatterns : TrainWith(cost, pattern)

\* Train(vol, RegressionLossFunc(y)) on a regression network.
TrainRegression ==
    /\ t.k < MaxK
    /\ t.regression
    /\ \E cost \in Costs, pattern \in GradPatterns : TrainWith(cost, pattern)

Next == TrainLabeled \/ TrainRegression

Spec == Init /\ [][Next]_vars

\* The weight vectors of the network's parameter groups.
Weights(nt) == [i \in 1..Len(GetResponse(nt)) |-> GetResponse(nt)[i].Weights]

Positions(tr, ev) == {i \in 1..Len(tr) : tr[i].ev = ev}

Pos(tr, ev) == CHOOSE i \in Positions(tr, ev) : TRUE

\* The step leaves k off a batch boundary.
OffBoundary == t'.k % t'.opts.BatchSize # 0

NoUpdate ==
    /\ Weights(net') = Weights(net)
    /\ res'.status = "ok"
    /\ res'.L1DecayLoss = 0
    /\ res'.L2DecayLoss = 0

CostReturned ==
    res'.status = "ok" => res'.CostLost = trace'[Pos(trace', "lossFunc returns")].arg

\* C1: a Train call that leaves k with k mod BatchSize # 0 changes no
\* parameter weight and returns L1DecayLoss = L2DecayLoss = 0; the CostLost of
\* every result Train returns is the value the loss function returned in that
\* call.
C1_OffBoundaryNoUpdate ==
    [][(OffBoundary => NoUpdate) /\ CostReturned]_vars

\* A Train call returned off the boundary, with a positive cost, on a network
\* whose parameters hold non-zero gradients and would have incurred decay.
C1_Witness ==
    /\ t.k = 1 /\ t.opts.BatchSize = 2
    /\ res.status = "ok" /\ res.CostLost = 3
    /\ t.opts.L2Decay = 1 /\ t.opts.L1Decay = 1
    /\ Len(GetResponse(net)) = 2
    /\ GetResponse(net)[1].Gradients = <<1, 1>>
    /\ GetResponse(net)[1].L2DecayMul = 1

\* A Train step that lands on a batch boundary with method SGD.
BoundarySGDStep ==
    /\ t'.k = t.k + 1
    /\ t'.k % t'.opts.BatchSize = 0
    /\ t.opts.Method = SGD

\* The momentum rule on parameter j (1-based) of group i, with the division
\* of g by BatchSize multiplied out.
MomentumRule(i, j) ==
    LET pg == GetResponse(net)[i]
        pgAfter == GetResponse(net')[i]
        num == RawBatchGradient(t.opts.L1Decay * pg.L1DecayMul,
                                t.opts.L2Decay * pg.L2DecayMul,
                                pg.Weights[j], pgAfter.Gradients[j])
        vOld == IF i <= Len(t.gsum) THEN t.gsum[i][j] ELSE 0
    IN /\ i <= Len(t'.gsum)
       /\ t.opts.BatchSize * t'.gsum[i][j]
             = t.opts.BatchSize * t.opts.Momentum * vOld - t.opts.LearningRate * num
       /\ pgAfter.Weights[j] = pg.Weights[j] + t'.gsum[i][j]

\* C2: on a batch-boundary Train step with method SGD every parameter p[j]
\* of every group is updated by the momentum rule: with
\* g = (l2Grad + l1Grad + gradient[j]) / BatchSize the stored velocity becomes
\* v = momentum*v_old - lr*g and the weight becomes p[j] + v.
C2_SGDMomentumUpdate ==
    [][BoundarySGDStep =>
          \A i \in 1..Len(GetResponse(net)) :
             \A j \in 1..Len(GetResponse(net)[i].Weights) : MomentumRule(i, j)]_vars

Count(tr, ev) == Cardinality(Positions(tr, ev))

\* The calls of one Train call are in the order of the code: Forward
\* (training = true) runs to completion, the loss function is called once,
\* k is incremented, and the parameter groups are collected after that and
\* only on a batch boundary.
TraceOrdered ==
    trace # <<>> =>
        /\ trace[1] = Event("Forward", TRUE)
        /\ Count(trace, "Forward") = 1 /\ Count(trace, "Forward returns") = 1
        /\ Count(trace, "lossFunc") = 1 /\ Count(trace, "lossFunc returns") = 1
        /\ Count(trace, "k++") = 1
        /\ Count(trace, "Layer.Forward") = Len(net.layers)
        /\ \A i \in Positions(trace, "Layer.Forward") : i < Pos(trace, "Forward returns")
        /\ Pos(trace, "Forward returns") < Pos(trace, "lossFunc")
        /\ Pos(trace, "lossFunc") < Pos(trace, "lossFunc returns")
        /\ Pos(trace, "lossFunc returns") < Pos(trace, "k++")
        /\ trace[Pos(trace, "k++")].arg = t.k
        /\ \A i \in Positions(trace, "GetResponse") \cup Positions(trace, "update") :
              i > Pos(trace, "k++")
        /\ Count(trace, "GetResponse") = IF t.k % t.opts.BatchSize = 0 THEN 1 ELSE 0
        /\ Count(trace, "update") = Count(trace, "GetResponse")

\* C3: within one Train call Network.Forward(input, training = true)
\* completes, then the loss function is invoked exactly once, then k is
\* incremented by exactly 1 (k starts at 0 and never decreases), and the
\* parameter groups are collected and updated only after the increment and
\* only when k mod BatchSize = 0.
C3_TrainOrder ==
    /\ t.k = 0
    /\ []TraceOrdered
    /\ [][t'.k = t.k + 1]_vars

\* The second Train call of a trainer with batch size 2 collected the
\* parameter groups.
C3_Witness ==
    /\ t.k = 2 /\ t.opts.BatchSize = 2
    /\ Count(trace, "GetResponse") = 1
    /\ Len(GetResponse(net)) = 2

\* The decay losses of parameter group pg under coefficients l1 and l2.
GroupL2(pg, l2) ==
    SumSeq([j \in 1..Len(pg.Weights) |->
               (l2 * pg.L2DecayMul * pg.Weights[j] * pg.Weights[j]) \div 2])

GroupL1(pg, l1) ==
    SumSeq([j \in 1..Len(pg.Weights) |-> l1 * pg.L1DecayMul * Abs(pg.Weights[j])])

LossesAddUp ==
    LET pgList == GetResponse(net)
        boundary == t'.k % t'.opts.BatchSize = 0
    IN res'.status = "ok" =>
          /\ res'.TotalLoss = res'.CostLost + res'.L1DecayLoss + res'.L2DecayLoss
          /\ boundary =>
                /\ res'.L2DecayLoss =
                      SumSeq([i \in 1..Len(pgList) |-> GroupL2(pgList[i], t.opts.L2Decay)])
                /\ res'.L1DecayLoss =
                      SumSeq([i \in 1..Len(pgList) |-> GroupL1(pgList[i], t.opts.L1Decay)])

\* C4: every TrainingResults Train returns has TotalLoss = CostLost +
\* L1DecayLoss + L2DecayLoss, and on a boundary step L2DecayLoss is the sum
\* over all parameters of l2Decay*p[j]^2/2 and L1DecayLoss the sum of
\* l1Decay*|p[j]|, l1Decay and l2Decay being the trainer's coefficient times
\* the group's decay multiplier.
C4_LossesAddUp == [][LossesAddUp]_vars

\* A boundary step returned with a positive cost and positive decay losses on
\* a network that has a group with multipliers 1 and a group with
\* multipliers 0.
C4_Witness ==
    /\ res.status = "ok"
    /\ t.k % t.opts.BatchSize = 0 /\ t.k > 0
    /\ res.CostLost > 0 /\ res.L1DecayLoss > 0 /\ res.L2DecayLoss > 0
    /\ Len(GetResponse(net)) = 2
    /\ GetResponse(net)[1].L1DecayMul = 1
    /\ GetResponse(net)[2].L2DecayMul = 0
    /\ GetResponse(net)[2].Weights # <<0>>

\* The calls Network.Backward made in the last Train call: those between
\* the call of the loss function and its return.
BackwardCalls ==
    SubSeq(trace, Pos(trace, "lossFunc") + 1, Pos(trace, "lossFunc returns") - 1)

\* C8: Network.Backward first invokes the tail layer's loss function and
\* then calls Backward() exactly once on every non-tail layer, in strict
\* reverse order of the chain; Backward() is never called on the tail.
C8_BackwardSweep ==
    trace # <<>> =>
        LET n == Len(net.layers)
        IN /\ Len(BackwardCalls) = n
           /\ BackwardCalls[1] = Event("Loss", n)
           /\ \A i \in 1..(n - 1) : BackwardCalls[i + 1] = Event("Layer.Backward", n - i)
           /\ Count(trace, "Loss") = 1
           /\ Count(trace, "Layer.Backward") = n - 1

\* A Train call ran the backward sweep over a chain of four layers.
C8_Witness ==
    /\ trace # <<>>
    /\ Len(net.layers) = 4
    /\ Count(trace, "Layer.Backward") = 3

\* C24: the trainer's accumulators are allocated exactly once: from the
\* first batch-boundary Train step on, gsum and xsum each hold exactly one
\* accumulator per parameter group returned by GetResponse, gsum[i] has the
\* length of group i's weight vector, and later Train calls append and
\* replace none.
C24_AccumulatorsAllocatedOnce ==
    t.k >= t.opts.BatchSize =>
        LET pgList == GetResponse(net)
        IN /\ Len(t.gsum) = Len(pgList)
           /\ Len(t.xsum) = Len(pgList)
           /\ \A i \in 1..Len(pgList) :
                 i <= Len(t.gsum) => Len(t.gsum[i]) = Len(pgList[i].Weights)

\* C27: for every optimizer method and every momentum value, 0 included,
\* when a batch-boundary Train step reaches the update loop an accumulator
\* gsum[i] and xsum[i] exists for every parameter group i, and the step
\* completes without an out-of-range access.
C27_AccumulatorsExist ==
    (res # NoResult /\ IsBatchBoundary(t.k, t.opts.BatchSize)) =>
        /\ res.status = "ok"
        /\ \A i \in 1..Len(GetResponse(net)) :
              i <= Len(t.gsum) /\ i <= Len(t.xsum)

(***************************************************************************)
(* SpecLoss: one loss layer (SVM, Regression or SoftMax) built for a       *)
(* 1x1x3 input, and the two Volumes its caller holds.  The caller makes    *)
(* Forward, loss and Backward calls in any order; calls holds the last     *)
(* call and its sequence number.                                           *)
(***************************************************************************)
LossDim == Dim(1, 1, 3)

LossCells == DimSize(LossDim)

\* The definition the network builder hands to the constructor: Input is
\* the output of the layer before.
LossLayerDef(type) == [LayerDef(type, LossDim, Nil, "none") EXCEPT !.Input = LossDim]

LossLayerChoices ==
    {NewSVMLayer(LossLayerDef(SVM)), NewRegressionLayer(LossLayerDef(Regression)),
     NewSoftmaxLayer(LossLayerDef(SoftMax))}

\* The score vectors the caller feeds: of the declared shape, and one with
\* a cell more than the layer was built for.  Those of a Regression layer
\* are even, so that 0.5*dY*dY is exact.
LossWeights(type) ==
    IF type = Regression
    THEN {<<2, 0, -2>>, <<0, 2, 2>>, <<0, 0, 0, 2>>}
    ELSE {<<2, 0, -2>>, <<1, 0, 0>>, <<0, 2, 2>>, <<0, 0, 0, 2>>}

LossVolumes(type) ==
    {[v EXCEPT !.dw = [i \in 1..v.n |-> g]] :
        v \in {NewVolume(1, 1, Len(w), <<[fn |-> "WithWeights", arg |-> w]>>, <<>>) :
                 w \in LossWeights(type)},
        g \in GradVals}

LossCallRec(op, index, value, ret, panicked, seq) ==
    [op |-> op, index |-> index, value |-> value, ret |-> ret, panic |-> panicked,
     seq |-> seq]

InitLoss ==
    /\ layer \in LossLayerChoices
    /\ \E a \in LossVolumes(layer.Type), b \in LossVolumes(layer.Type) : heap = <<a, b>>
    /\ calls = <<>>
    /\ vol = Unused /\ volOp = Unused
    /\ defs = Unused /\ nn = Unused
    /\ net = Unused /\ t = Unused /\ res = Unused /\ trace = Unused

\* The number of calls made so far.
CallSeq == IF calls = <<>> THEN 0 ELSE calls[1].seq

\* The class or dimension indexes a caller passes: the valid ones and one
\* step beyond at either end.
LossIndexes == (0 - 1)..LossCells

TargetVals == {0, 2}

LossForward ==
    /\ CallSeq < MaxCalls
    /\ \E a \in CallerRefs :
          LET r == IF layer.Type = SoftMax THEN SoftmaxForward(heap, layer, a)
                   ELSE PassThroughForward(heap, layer, a)
          IN /\ heap' = r.heap
             /\ layer' = r.layer
             /\ calls' = <<LossCallRec("Forward", a, 0, r.ret, r.panic, CallSeq + 1)>>
    /\ UNCHANGED OtherThanLayer

\* Loss(index) on an SVM or SoftMax layer.
LossLabeled ==
    /\ CallSeq < MaxCalls
    /\ layer.Type \in {SVM, SoftMax}
    /\ \E index \in LossIndexes :
          LET r == IF layer.Type = SVM THEN SVMLoss(heap, layer, index)
                   ELSE SoftmaxLoss(heap, layer, index)
          IN /\ heap' = r.heap
             /\ calls' = <<LossCallRec("Loss", index, 0, r.ret, r.panic, CallSeq + 1)>>
    /\ UNCHANGED layer
    /\ UNCHANGED OtherThanLayer

\* DimensionalLoss(index, value) on a Regression layer.
LossDimensional ==
    /\ CallSeq < MaxCalls
    /\ layer.Type = Regression
    /\ \E index \in LossIndexes, value \in TargetVals :
          LET r == DimensionalLoss(heap, layer, index, value)
          IN /\ heap' = r.heap
             /\ calls' = <<LossCallRec("DimensionalLoss", index, value, r.ret, r.panic,
                                       CallSeq + 1)>>
    /\ UNCHANGED layer
    /\ UNCHANGED OtherThanLayer

\* The target vectors a caller passes: of the output size, one short and
\* one long.
TargetVectors == {<<0, 2>>, <<2, 0, 2>>, <<0, 0, 2, 2>>}

\* MultiDimensionalLoss(y) on a Regression layer.
LossMultiDimensional ==
    /\ CallSeq < MaxCalls
    /\ layer.Type = Regression
    /\ \E y \in TargetVectors :
          LET r == MultiDimensionalLoss(heap, layer, y)
          IN /\ heap' = r.heap
             /\ calls' = <<LossCallRec("MultiDimensionalLoss", Len(y), y, r.ret, r.panic,
                                       CallSeq + 1)>>
    /\ UNCHANGED layer
    /\ UNCHANGED OtherThanLayer

LossBackward ==
    /\ CallSeq < MaxCalls
    /\ LET r == CASE layer.Type = SVM -> SVMBackward(heap, layer)
                  [] layer.Type = Regression -> RegressionBackward(heap, layer)
                  [] layer.Type = SoftMax -> SoftmaxBackward(heap, layer)
       IN /\ heap' = r.heap
          /\ calls' = <<LossCallRec("Backward", 0, 0, r.ret, r.panic, CallSeq + 1)>>
    /\ UNCHANGED layer
    /\ UNCHANGED OtherThanLayer

NextLoss ==
    LossForward \/ LossLabeled \/ LossDimensional \/ LossMultiDimensional \/ LossBackward

SpecLoss == InitLoss /\ [][NextLoss]_vars

\* The step is a call of op with an index inside [0, outputSize), on a
\* layer whose last Forward cached a Volume.
InRangeLossStep(op, type) ==
    /\ calls'[1].op = op
    /\ layer.Type = type
    /\ layer.inVol # NilRef
    /\ calls'[1].index >= 0 /\ calls'[1].index < DimSize(layer.outDim)

\* The hinge loss of score vector s for true class i (1-based).
HingeViolation(s, i, j) == s[j] - s[i] + 1

HingeSum(s, i) ==
    SumSeq([j \in 1..Len(s) |->
               IF j # i /\ HingeViolation(s, i, j) > 0
               THEN HingeViolation(s, i, j) ELSE 0])

SVMLossIsHinge ==
    (InRangeLossStep("Loss", SVM) /\ Size(heap[layer.inVol]) = LossCells) =>
        LET s == heap[layer.inVol].w
            i == calls'[1].index + 1
        IN /\ ~calls'[1].panic
           /\ calls'[1].ret = HingeSum(s, i)
           /\ (\A j \in 1..Len(s) : j # i => s[i] >= s[j] + 1) => calls'[1].ret = 0

\* C13: for the SVM layer with true class i, Loss(i) returns exactly 0 when
\* score[i] >= score[j] + 1 for every other class j, and otherwise the sum
\* over j # i of the positive values of score[j] - score[i] + 1.
C13_SVMHingeLoss == [][SVMLossIsHinge]_vars

\* Loss(1) on scores (2, 0, -2): class 0 violates the margin by 3, class 2
\* does not violate it.
C13_Witness ==
    /\ calls # <<>> /\ calls[1].op = "Loss" /\ layer.Type = SVM
    /\ ~calls[1].panic /\ calls[1].index = 1
    /\ heap[layer.inVol].w = <<2, 0, -2>>
    /\ calls[1].ret = 3

\* The last call was Loss(i) with i inside [0, outputSize) on a SoftMax layer
\* that a Forward had fed.
SoftmaxLossDone ==
    /\ calls # <<>>
    /\ calls[1].op = "Loss"
    /\ layer.Type = SoftMax
    /\ layer.inVol # NilRef
    /\ calls[1].index >= 0 /\ calls[1].index < DimSize(layer.outDim)

\* C14: after SoftMax Forward followed by Loss(i) with i in range, the
\* cached input Volume's gradient at every class j is probability[j] - 1 if
\* j = i and probability[j] otherwise, probability being the vector cached by
\* the most recent Forward, whatever the gradient plane held before; the
\* returned loss is -log(probability[i]).
C14_SoftmaxLossGradient ==
    SoftmaxLossDone =>
        LET p == layer.es
            i == calls[1].index + 1
        IN /\ ~calls[1].panic
           /\ \A j \in 1..LossCells :
                 heap[layer.inVol].dw[j] =
                     IF j = i THEN FracSub(p[j], Frac(1, 1)) ELSE p[j]
           /\ calls[1].ret = NegLog(p[i])

\* Loss(1) after Forward on (2, 0, -2) ln 2: the probabilities are 16/21,
\* 4/21 and 1/21.
C14_Witness ==
    /\ calls # <<>> /\ calls[1].op = "Loss" /\ layer.Type = SoftMax
    /\ ~calls[1].panic /\ calls[1].index = 1
    /\ layer.inVol # NilRef
    /\ heap[layer.inVol].w = <<2, 0, -2>>
    /\ heap[layer.inVol].dw =
          <<[num |-> 16, den |-> 21], [num |-> 0 - 17, den |-> 21], [num |-> 1, den |-> 21]>>
    /\ calls[1].ret = NegLog([num |-> 4, den |-> 21])

OutOfRangeAborts ==
    (/\ calls'[1].op \in {"Loss", "DimensionalLoss"}
     /\ (calls'[1].index < 0 \/ calls'[1].index >= DimSize(layer.outDim)))
        => calls'[1].panic

\* C15: a class or dimension index outside [0, outputSize) passed to
\* SoftMax.Loss, SVM.Loss or Regression.DimensionalLoss aborts the call: no
\* loss value is returned for it by any of the three loss layers.
C15_OutOfRangeIndexAborts == [][OutOfRangeAborts]_vars

\* SVM.Loss(3) aborted on a layer of 3 classes whose cached Volume has a
\* cell at index 3.
C15_Witness ==
    /\ calls # <<>> /\ calls[1].op = "Loss" /\ layer.Type = SVM
    /\ calls[1].index = LossCells /\ calls[1].panic
    /\ layer.inVol # NilRef
    /\ Size(heap[layer.inVol]) = LossCells + 1

BackwardUnsupported ==
    (calls'[1].op = "Backward" /\ layer.Type \in {SVM, Regression}) =>
        /\ calls'[1].panic
        /\ heap' = heap
        /\ layer' = layer

\* C16: Backward() on an SVM layer or a Regression layer always aborts and
\* modifies no Volume, whatever Forward and loss calls preceded it.
C16_BackwardUnsupported == [][BackwardUnsupported]_vars

\* Backward aborted as the third call on a Regression layer that had cached
\* a Volume and written a gradient into it.
C16_Witness ==
    /\ calls # <<>> /\ calls[1].op = "Backward" /\ layer.Type = Regression
    /\ calls[1].panic /\ calls[1].seq = 3
    /\ layer.inVol # NilRef
    /\ heap[layer.inVol].dw = <<2, 0, 0>>

DimensionalLossFrame ==
    InRangeLossStep("DimensionalLoss", Regression) =>
        LET v == heap[layer.inVol]
            after == heap'[layer.inVol]
            i == calls'[1].index + 1
            dY == v.w[i] - calls'[1].value
        IN /\ ~calls'[1].panic
           /\ after.dw[i] = dY
           /\ \A j \in 1..v.n : j # i => after.dw[j] = 0
           /\ after.w = v.w
           /\ 2 * calls'[1].ret = dY * dY

\* C17: Regression.DimensionalLoss(index, value) with index in range sets
\* the input gradient at index to prediction[index] - value, leaves the
\* gradient at every other dimension equal to 0, changes no weight and
\* returns 0.5*(prediction[index] - value)^2.
C17_DimensionalLossFrame == [][DimensionalLossFrame]_vars

\* DimensionalLoss(2, 2) on predictions (2, 0, -2): dY = -4, loss 8.
C17_Witness ==
    /\ calls # <<>> /\ calls[1].op = "DimensionalLoss" /\ ~calls[1].panic
    /\ calls[1].index = 2 /\ calls[1].value = 2
    /\ heap[layer.inVol].w = <<2, 0, -2>>
    /\ heap[layer.inVol].dw = <<0, 0, 0 - 4>>
    /\ calls[1].ret = 8

\* The classes other than i (1-based) that violate the margin on scores s.
ViolatingClasses(s, i) == {j \in 1..Len(s) : j # i /\ s[j] - s[i] + 1 > 0}

SVMLossGradient ==
    InRangeLossStep("Loss", SVM) =>
        LET s == heap[layer.inVol].w
            after == heap'[layer.inVol]
            i == calls'[1].index + 1
        IN /\ ~calls'[1].panic
           /\ \A j \in 1..Len(s) :
                 after.dw[j] = IF j = i THEN 0 - Cardinality(ViolatingClasses(s, i))
                               ELSE IF j \in ViolatingClasses(s, i) THEN 1 ELSE 0
           /\ SumSeq(after.dw) = 0
           /\ after.w = s

\* C23: after SVM Loss(i) with i in range, whatever the gradient plane held
\* before the call, the input gradient is 1 at every class j # i with
\* score[j] - score[i] + 1 > 0, 0 at every other class j # i, and minus the
\* number of violating classes at i; the gradient entries sum to 0 and no
\* weight is changed.
C23_SVMLossGradient == [][SVMLossGradient]_vars

\* Loss(0) on scores (0, 2, 2): both other classes violate the margin.
C23_Witness ==
    /\ calls # <<>> /\ calls[1].op = "Loss" /\ layer.Type = SVM
    /\ ~calls[1].panic /\ calls[1].index = 0
    /\ heap[layer.inVol].w = <<0, 2, 2>>
    /\ heap[layer.inVol].dw = <<0 - 2, 1, 1>>

\* The last call was a Forward that returned.
ForwardReturned == calls # <<>> /\ calls[1].op = "Forward" /\ ~calls[1].panic

\* The Volume the last Forward returned was created by that call: it is the
\* newest Volume of the heap, it is neither the input nor a Volume the
\* caller held, and the layer caches it as an output distinct from its
\* input.
OutputIsNew ==
    /\ calls[1].ret = Len(heap)
    /\ calls[1].ret \notin CallerRefs
    /\ calls[1].ret # calls[1].index
    /\ layer.inVol = calls[1].index
    /\ layer.outVol = calls[1].ret

\* The last Forward returned its input: output and input are one Volume,
\* and no Volume was created.
OutputIsInput ==
    /\ calls[1].ret = calls[1].index
    /\ layer.inVol = calls[1].index
    /\ layer.outVol = calls[1].index
    /\ Len(heap) = Cardinality(CallerRefs)

\* C25 as stated: for every layer kind the Volume returned (and cached as
\* output) by Forward is newly created by that call and shares no buffer
\* with the input Volume nor with the Volume of an earlier Forward.
C25_ForwardOutputIsNew == ForwardReturned => OutputIsNew

\* C25 amended: SoftMax Forward returns (and caches as output) a Volume
\* newly created by that call, distinct from its input and from every
\* earlier output; SVM and Regression Forward return (and cache as output)
\* the input Volume itself, so output and input share both planes.
C25_ForwardOutputNewOrInput ==
    ForwardReturned =>
        IF layer.Type \in {SVM, Regression} THEN OutputIsInput ELSE OutputIsNew

\* The second Forward of an SVM layer returned the caller's second Volume
\* itself: the heap still holds the caller's two Volumes only.
C25_Witness ==
    /\ ForwardReturned
    /\ layer.Type = SVM /\ calls[1].seq = 2
    /\ calls[1].index = 2 /\ calls[1].ret = 2
    /\ layer.outVol = 2 /\ layer.inVol = 2
    /\ Len(heap) = 2

\* The step is a loss call with invalid arguments, a class or dimension
\* index outside [0, outputSize) or a target vector of another length than
\* the output size, that aborted on a layer holding a cached input.
InvalidLossAborted ==
    /\ layer.inVol # NilRef
    /\ calls'[1].panic
    /\ \/ /\ calls'[1].op \in {"Loss", "DimensionalLoss"}
          /\ (calls'[1].index < 0 \/ calls'[1].index >= DimSize(layer.outDim))
       \/ /\ calls'[1].op = "MultiDimensionalLoss"
          /\ calls'[1].index # DimSize(layer.outDim)

\* The gradient planes before and after the step hold values of one kind:
\* a SoftMax layer writes fractions, so its planes are compared on a Loss
\* call that follows a Loss call.
PlanesComparable ==
    layer.Type = SoftMax => (calls # <<>> /\ calls[1].op = "Loss")

LossAbortKeepsGradient ==
    (InvalidLossAborted /\ PlanesComparable) =>
        heap'[layer.inVol].dw = heap[layer.inVol].dw

\* C26: a loss call that aborts because of invalid arguments (class or
\* dimension index outside [0, outputSize), or a target vector whose length
\* differs from the output size) leaves the cached input Volume's gradient
\* plane exactly as it was before the call, for SoftMax.Loss, SVM.Loss,
\* Regression.DimensionalLoss and Regression.MultiDimensionalLoss.
C26_LossAbortKeepsGradient == [][LossAbortKeepsGradient]_CallSeq

(***************************************************************************)
(* SpecConv: a Convolutional layer built by NewConvLayer for a geometry    *)
(* the caller chose, and Forward calls on a Volume of the input            *)
(* dimensions.  defs holds the definition the layer was built from.        *)
(***************************************************************************)
Geometry(x, y, z, sx, sy, stride, pad, filters) ==
    [X |-> x, Y |-> y, Z |-> z, Sx |-> sx, Sy |-> sy, Stride |-> stride,
     Padding |-> pad, FilterCount |-> filters]

\* input (7,7,3), kernel 3x3 given as Sx alone, stride 1, padding 0, 4 filters
ExampleGeometry == Geometry(7, 7, 3, 3, 0, 1, 0, 4)

\* Both output extents of the geometry are at least 0: the kernel exceeds
\* the padded input by no more than one stride.
KernelFits(g) ==
    /\ g.X + 2 * g.Padding - g.Sx >= 0 - g.Stride
    /\ g.Y + 2 * g.Padding - (IF g.Sy > 0 THEN g.Sy ELSE g.Sx) >= 0 - g.Stride

\* The geometries drawn: inputs and kernels up to MaxDim + 1 wide, Sy left
\* out (0) or given, strides that divide and strides that do not, with and
\* without padding; and the example.
ConvGeometries ==
    {g \in {Geometry(x, y, z, sx, sy, stride, pad, filters) :
               x \in 1..(MaxDim + 1), y \in 1..(MaxDim + 1), z \in 1..2,
               sx \in 1..(MaxDim + 1), sy \in 0..MaxDim, stride \in 1..2,
               pad \in 0..1, filters \in 1..2} : KernelFits(g)}
    \cup {ExampleGeometry}

ConvConfig(g) ==
    NewConvLayerConfig(g.FilterCount,
        <<[fn |-> "WithConvSx", a |-> g.Sx, b |-> 0],
          [fn |-> "WithConvStride", a |-> g.Stride, b |-> 0],
          [fn |-> "WithConvPadding", a |-> g.Padding, b |-> 0]>>
        \o (IF g.Sy > 0 THEN <<[fn |-> "WithConvSy", a |-> g.Sy, b |-> 0]>> ELSE <<>>))

\* The definition handed to NewConvLayer: Input filled in from the layer
\* before, Output as the caller declared it.
ConvDef(g) ==
    [LayerDef(Conv, Dim(1, 1, g.FilterCount), ConvConfig(g), "none")
        EXCEPT !.Input = Dim(g.X, g.Y, g.Z)]

\* What the random generator yields for filter weights and input weights.
FilterDraws == [i \in 1..64 |-> IF i % 2 = 1 THEN 2 ELSE 0 - 2]

InputDraws == [i \in 1..147 |-> (i % 3) - 1]

InitConv ==
    /\ \E g \in ConvGeometries :
          /\ defs = <<ConvDef(g)>>
          /\ layer = NewConvLayer(ConvDef(g), FilterDraws)
          /\ heap = <<NewVolume(g.X, g.Y, g.Z, <<>>, InputDraws)>>
    /\ calls = <<>>
    /\ vol = Unused /\ volOp = Unused /\ nn = Unused
    /\ net = Unused /\ t = Unused /\ res = Unused /\ trace = Unused

\* Forward(vol, true) on the caller's input Volume; the layer does not read
\* the training flag.
ConvCallForward ==
    /\ Len(calls) < MaxCalls
    /\ LET r == ConvForward(heap, layer, 1)
       IN /\ heap' = r.heap
          /\ layer' = r.layer
          /\ calls' = Append(calls, Call("Forward", 1, TRUE, r.ret, r.panic))
    /\ UNCHANGED <<vol, volOp, defs, nn, net, t, res, trace>>

NextConv == ConvCallForward

SpecConv == InitConv /\ [][NextConv]_vars

\* floor(a / b) for b > 0
FloorDiv(a, b) == CHOOSE q \in (0 - 32)..32 : q * b <= a /\ a < (q + 1) * b

\* The output dimensions the formula gives for the definition in defs.
FormulaOutput ==
    LET in == defs[1].Input
        c == defs[1].LayerConfig
        ky == IF c.Sy > 0 THEN c.Sy ELSE c.Sx
    IN Dim(FloorDiv(in.X + 2 * c.Padding - c.Sx, c.Stride) + 1,
           FloorDiv(in.Y + 2 * c.Padding - ky, c.Stride) + 1,
           c.FilterCount)

WindowAtOrigin(l, v, ax, ay, d) ==
    ConvWindowSum(l.filters[d + 1], v,
                  l.conf.Stride * ax - l.conf.Padding,
                  l.conf.Stride * ay - l.conf.Padding)
    + GetByIndex(l.biases, d)

\* C21: in Convolutional Forward the value of output cell (ax, ay) of
\* filter d is bias_d plus the sum of filter[fx,fy,fz] * input[ox,oy,fz]
\* over the window whose origin is (stride*ax - padding, stride*ay -
\* padding), counting only the positions inside the input; output cell
\* (0,0) with padding 0 reads the window that starts at input (0,0).
C21_ConvWindowOrigin ==
    \A i \in 1..Len(calls) :
        (calls[i].op = "Forward" /\ ~calls[i].panic) =>
            LET out == heap[calls[i].ret]
            IN \A d \in 0..(layer.output.Z - 1), ay \in 0..(layer.output.Y - 1),
                  ax \in 0..(layer.output.X - 1) :
                  Get(out, ax, ay, d) = WindowAtOrigin(layer, heap[1], ax, ay, d)

(***************************************************************************)
(* SpecConvGrad: a Convolutional layer with a square kernel, Forward       *)
(* calls on the caller's input Volume and Backward calls on the upstream   *)
(* gradient the consumer wrote into the output's gradient plane.           *)
(***************************************************************************)
GradGeometries ==
    {g \in {Geometry(x, y, z, sx, 0, stride, pad, filters) :
               x \in 1..MaxDim, y \in 1..MaxDim, z \in 1..2, sx \in 1..MaxDim,
               stride \in 1..2, pad \in 0..1, filters \in 1..2} : KernelFits(g)}

\* Input weights that let every cell be told from its neighbours.
GradInputDraws == [i \in 1..64 |-> i]

InitConvGrad ==
    /\ \E g \in GradGeometries :
          /\ defs = <<ConvDef(g)>>
          /\ layer = NewConvLayer(ConvDef(g), FilterDraws)
          /\ heap = <<NewVolume(g.X, g.Y, g.Z, <<>>, GradInputDraws)>>
    /\ calls = <<>>
    /\ vol = Unused /\ volOp = Unused /\ nn = Unused
    /\ net = Unused /\ t = Unused /\ res = Unused /\ trace = Unused

\* The gradient planes the consumer of the output writes: 1 everywhere, or
\* 1, 2, 3, ... along the buffer.
ConvUpstreamGrads(n) == {[i \in 1..n |-> 1], [i \in 1..n |-> i]}

\* One Backward call; before the first Forward it dereferences a nil
\* Volume.
ConvCallBackward ==
    /\ Len(calls) < MaxCalls
    /\ IF layer.outVol = NilRef
       THEN /\ calls' = Append(calls, Call("Backward", NilRef, FALSE, NilRef, TRUE))
            /\ UNCHANGED <<heap, layer>>
       ELSE \E g \in ConvUpstreamGrads(Len(heap[layer.outVol].dw)) :
              LET r == ConvBackward([heap EXCEPT ![layer.outVol].dw = g], layer)
              IN /\ heap' = r.heap
                 /\ layer' = r.layer
                 /\ calls' = Append(calls, Call("Backward", NilRef, FALSE, NilRef, r.panic))
    /\ UNCHANGED <<vol, volOp, defs, nn, net, t, res, trace>>

NextConvGrad == ConvCallForward \/ ConvCallBackward

SpecConvGrad == InitConvGrad /\ [][NextConvGrad]_vars

\* A Backward call that ran to its end.
ConvBackwardDone ==
    /\ Len(calls') = Len(calls) + 1
    /\ calls'[Len(calls')].op = "Backward"
    /\ ~calls'[Len(calls')].panic

\* The output cells of filter d together with the filter positions
\* (fx, fy) whose input position, in the window Forward reads for that
\* cell, lies inside the input.
CoveringPositions(l, v, d) ==
    {p \in [ax : 0..(l.output.X - 1), ay : 0..(l.output.Y - 1),
            fx : 0..(l.filters[d + 1].sx - 1), fy : 0..(l.filters[d + 1].sy - 1)] :
        LET it == ConvIteration(l, (d * l.output.Y + p.ay) * l.output.X + p.ax)
        IN InsideInput(v, it.x + p.fx, it.y + p.fy)}

\* The input position (ox, oy) that position p reads.
ReadAt(l, d, p) ==
    LET it == ConvIteration(l, (d * l.output.Y + p.ay) * l.output.X + p.ax)
    IN [ox |-> it.x + p.fx, oy |-> it.y + p.fy]

\* The sum of term[p] over the positions of the set P.
RECURSIVE SumOver(_, _)
SumOver(P, term) ==
    IF P = {} THEN 0
    ELSE LET p == CHOOSE q \in P : TRUE
         IN term[p] + SumOver(P \ {p}, term)

\* C22: Convolutional Backward accumulates: each filter gradient entry
\* grows by the sum, over every output cell whose window covers it at a
\* position inside the input, of input value times upstream gradient; each
\* input gradient entry is the sum over all filters and all covering output
\* cells of filter weight times upstream gradient; the bias gradient of
\* filter d grows by the sum of the upstream gradient over d's output
\* plane.
C22_ConvBackwardAccumulates ==
    [][ConvBackwardDone =>
        LET v == heap'[layer.inVol]
            out == heap'[layer.outVol]
            Cells == [ax : 0..(layer.output.X - 1), ay : 0..(layer.output.Y - 1)]
        IN /\ \A d \in 0..(layer.output.Z - 1) :
                LET f == layer.filters[d + 1]
                    P == CoveringPositions(layer, v, d)
                IN /\ \A fx \in 0..(f.sx - 1), fy \in 0..(f.sy - 1), fz \in 0..(f.depth - 1) :
                        GetGrad(layer'.filters[d + 1], fx, fy, fz)
                        = GetGrad(f, fx, fy, fz)
                          + SumOver({p \in P : p.fx = fx /\ p.fy = fy},
                                [p \in P |->
                                    Get(v, ReadAt(layer, d, p).ox, ReadAt(layer, d, p).oy, fz)
                                    * GetGrad(out, p.ax, p.ay, d)])
                   /\ GetGradByIndex(layer'.biases, d)
                      = GetGradByIndex(layer.biases, d)
                        + SumOver(Cells, [p \in Cells |-> GetGrad(out, p.ax, p.ay, d)])
           /\ \A ox \in 0..(v.sx - 1), oy \in 0..(v.sy - 1), fz \in 0..(v.depth - 1) :
                GetGrad(v, ox, oy, fz)
                = SumOver(0..(layer.output.Z - 1),
                    [d \in 0..(layer.output.Z - 1) |->
                        LET P == CoveringPositions(layer, v, d)
                        IN SumOver({p \in P : ReadAt(layer, d, p) = [ox |-> ox, oy |-> oy]},
                              [p \in P |-> Get(layer.filters[d + 1], p.fx, p.fy, fz)
                                            * GetGrad(out, p.ax, p.ay, d)])])]_vars

\* The input cell (ox, oy, fz) that pass K of the Backward loops addresses.
BackwardCell(l, K) ==
    LET f == l.filters[1]
        it == ConvIteration(l, K \div Size(f))
        c == WindowCell(f, K % Size(f))
    IN [ox |-> it.x + c.fx, oy |-> it.y + c.fy, fz |-> c.fz]

\* C28: Convolutional Backward addresses the input cell (ox, oy, fz) at the
\* flat index Forward reads it from, (inputSx*oy + ox)*inputDepth + fz, for
\* every input shape, non-square ones included; every index Backward uses
\* on the input Volume lies in [0, inputSx*inputSy*inputDepth), and the
\* call does not abort.
C28_BackwardIndexMatchesForward ==
    (calls # <<>> /\ calls[Len(calls)].op = "Backward" /\ layer.inVol # NilRef) =>
        LET v == heap[layer.inVol]
        IN /\ ~calls[Len(calls)].panic
           /\ \A K \in 0..(ConvBackwardSteps(layer) - 1) :
                 LET c == BackwardCell(layer, K)
                     st == ConvBackwardStep(layer, v, K)
                 IN st.inside =>
                       /\ st.ix1 = InputIndexForward(v, c.ox, c.oy, c.fz)
                       /\ st.ix1 = getIndex(v, c.ox, c.oy, c.fz)
                       /\ InRange(v, st.ix1)

====
